---------------------------- MODULE Spec2Model ----------------------------
(***************************************************************************)
(* A model of the o0_o.posix Ansible collection's raw-fallback execution   *)
(* and file-mutation engine:                                               *)
(*   - the line patcher of plugins/action/lineinfile_dedupe.py,            *)
(*   - the command plugin of plugins/action/command.py and the delegation  *)
(*     helper _run_action of plugins/action_utils/posix_base.py,           *)
(*   - the file writer _write_file of plugins/action_utils/posix_base.py,  *)
(*   - its permission comparison and post-apply verification,             *)
(*   - run() of plugins/action/lineinfile_dedupe.py, audit to cleanup,     *)
(*   - the classifier _is_interpreter_missing on every kind of result,     *)
(*   - the keys and exceptions of each plugin's run(),                     *)
(*   - _get_mounts of plugins/action/mounts.py.                            *)
(*                                                                         *)
(* Strings are sequences of one-character strings, "\n" being the line     *)
(* feed.  Python's None is the value None; list indices are 0-based as in  *)
(* the source, At(s, i) reading s[i].                                      *)
(***************************************************************************)
EXTENDS Integers, Sequences, FiniteSets, TLC

VARIABLES
    lp_args,     \* lineinfile_dedupe: the validated module arguments
    lp_lines,    \* lineinfile_dedupe: self.lines, the lines read from the file
    lp_pc,       \* lineinfile_dedupe: where _ensure_line_present stands
    lp_scan,     \* lineinfile_dedupe: line_indices, match_indices, relative_insert_indices
    lp_res,      \* lineinfile_dedupe: self.new_lines, self.result and the locals
    op,          \* a plugin operation: its force_raw, its calls so far, its result
    sl,          \* the slurp64 plugin instance a delegated call runs
    cm,          \* the command plugin instance a call runs
    wr,          \* _write_file: its arguments, locals and result
    host,        \* the remote host and the connection's shell.tmpdir
    rn,          \* lineinfile_dedupe: one run() of the plugin
    pm           \* the permission comparison and application of one write

lpVars == <<lp_args, lp_lines, lp_pc, lp_scan, lp_res>>

cmdVars == <<op, sl, cm>>

wrVars == <<wr, host>>

rnVars == <<rn>>

pmVars == <<pm>>

vars == <<lp_args, lp_lines, lp_pc, lp_scan, lp_res, op, sl, cm, wr, host, rn, pm>>

-----------------------------------------------------------------------------
(* Bounds of the model *)

MaxLines == 4

\* delegated calls one plugin operation makes
MaxCalls == 3

\* elements of a content list, characters of a content string, and
\* consecutive _write_file calls with the same arguments
MaxContent == 2
MaxStr == 2
MaxWrites == 2
\* permission fields requested in one call
MaxRequested == 2
\* characters of a result's msg
MaxMsg == 3
\* lines of the 'mount' output
MaxMounts == 2

-----------------------------------------------------------------------------
(* Python values and list operations *)

\* None where an index is expected, and None where a string is expected
NoneIdx == -1
None == <<"None">>

At(s, i) == s[i + 1]

\* Python truth of an optional index (None and 0 are false) and of an
\* optional string (None and "" are false)
TruthyIdx(i) == i # NoneIdx /\ i # 0
Truthy(s) == s # None /\ s # <<>>

\* seq[0] whatever the choice
PyChoice_First(s, choice) == s[1]

\* seq[choice] for choice in {0, -1}
PyChoice(s, choice) == IF choice = 0 THEN s[1] ELSE s[Len(s)]

\* list.insert(i, v) for 0 <= i <= len(s)
PyInsert(s, i, v) == SubSeq(s, 1, i) \o <<v>> \o SubSeq(s, i + 1, Len(s))

\* del s[i] for 0 <= i < len(s)
PyDel(s, i) == SubSeq(s, 1, i) \o SubSeq(s, i + 2, Len(s))

\* s[i] = v for 0 <= i < len(s)
PySet(s, i, v) == [s EXCEPT ![i + 1] = v]

RECURSIVE InsertDesc(_, _)
InsertDesc(s, v) ==
    IF s = <<>> THEN <<v>>
    ELSE IF v >= Head(s) THEN <<v>> \o s
    ELSE <<Head(s)>> \o InsertDesc(Tail(s), v)

\* sorted(s, reverse=True), duplicates kept
RECURSIVE SortedDesc(_)
SortedDesc(s) == IF s = <<>> THEN <<>> ELSE InsertDesc(SortedDesc(Tail(s)), Head(s))

\* needle in hay (str.__contains__), also re.search of a literal pattern
Contains(hay, needle) ==
    \E k \in 0..(Len(hay) - Len(needle)) :
        SubSeq(hay, k + 1, k + Len(needle)) = needle

-----------------------------------------------------------------------------
(* lineinfile_dedupe: inputs *)

BOF == <<"B", "O", "F">>
EOF == <<"E", "O", "F">>

\* The lines a file may hold and the patterns a task may give.  Patterns are
\* literal regular expressions, so re.search is substring search.
LineVals == { <<"x">>, <<"x", "x">>, <<"a">>, <<"y">> }
PatternVals == { <<"x">>, <<"a">> }

RECURSIVE SeqsUpTo(_, _)
SeqsUpTo(S, n) ==
    IF n = 0 THEN { <<>> }
    ELSE LET shorter == SeqsUpTo(S, n - 1)
         IN  shorter \cup { Append(s, v) : s \in { t \in shorter : Len(t) = n - 1 }, v \in S }

\* _def_args: mutually exclusive regexp/search_string, insertbefore/insertafter,
\* backrefs/search_string; _audit_args: line required, backrefs requires regexp.
LpArgSpace ==
    { a \in [ line : { <<"x">> },
              regexp : {None} \cup PatternVals,
              search_string : {None, <<"x">>},
              insertafter : {None} \cup PatternVals,
              insertbefore : {None, BOF} \cup PatternVals,
              firstmatch : BOOLEAN,
              backrefs : BOOLEAN,
              dedupe : BOOLEAN ] :
        /\ ~(a.regexp # None /\ a.search_string # None)
        /\ ~(a.insertafter # None /\ a.insertbefore # None)
        /\ (a.backrefs => a.regexp # None) }

\* _audit_args: insertafter defaults to EOF when neither anchor is given
AuditInsertafter(a) ==
    IF ~Truthy(a.insertafter) /\ ~Truthy(a.insertbefore) THEN EOF ELSE a.insertafter

\* _audit_args: self.re_ins, the compiled anchor pattern, or None
ReIns(a) ==
    LET ia == AuditInsertafter(a)
    IN  IF ia \notin {None, BOF, EOF} THEN ia
        ELSE IF a.insertbefore \notin {None, BOF} THEN a.insertbefore
        ELSE None

-----------------------------------------------------------------------------
(* lineinfile_dedupe: _ensure_line_present *)

\* [i for i in range(lo, hi) if i in S]: the members of S in ascending order
RECURSIVE Ascending(_, _, _)
Ascending(S, lo, hi) ==
    IF lo >= hi THEN <<>>
    ELSE (IF lo \in S THEN <<lo>> ELSE <<>>) \o Ascending(S, lo + 1, hi)

\* the elements of a list of indices, as a set
IndexSet(s) == { s[k] : k \in 1..Len(s) }

\* self.re_m.search(cur_line), or self.search_string in cur_line
Matches(a, cur_line) ==
    IF Truthy(a.regexp) THEN Contains(cur_line, a.regexp)
    ELSE IF Truthy(a.search_string) THEN Contains(cur_line, a.search_string)
    ELSE FALSE

MatchIndices(a, lines) ==
    Ascending({ i \in 0..(Len(lines) - 1) : Matches(a, At(lines, i)) }, 0, Len(lines))

LineIndices(a, lines) ==
    Ascending({ i \in 0..(Len(lines) - 1) : a.line = At(lines, i) }, 0, Len(lines))

RelativeInsertIndices(a, lines) ==
    Ascending({ i \in 0..(Len(lines) - 1) :
                  ReIns(a) # None /\ Contains(At(lines, i), ReIns(a)) },
              0, Len(lines))

\* match.expand(self.line): the lines of the model hold no backslash, so
\* the template expands to itself
ExpandLine(a, match_line) == a.line

\* The decision tree, lines 124-202, over the scan's three index lists:
\* which of insert_index, replace_index, keep_index is set.  fail = TRUE is
\* the AnsibleActionFail of line 148.
Decide(a, lines, line_indices, match_indices, rel) ==
    LET match_choice == IF a.firstmatch THEN 0 ELSE -1
        ia == AuditInsertafter(a)
        none == [insert_index |-> NoneIdx, replace_index |-> NoneIdx,
                 keep_index |-> NoneIdx, fail |-> FALSE]
    IN  IF line_indices = <<>> THEN
            IF match_indices = <<>> THEN
                IF rel = <<>> THEN
                    IF a.insertbefore = BOF
                    THEN [none EXCEPT !.insert_index = 0]
                    ELSE [none EXCEPT !.insert_index = Len(lines)]
                ELSE IF Truthy(ia)
                    THEN [none EXCEPT !.insert_index = PyChoice(rel, match_choice) + 1]
                ELSE IF Truthy(a.insertbefore)
                    THEN [none EXCEPT !.insert_index = PyChoice(rel, match_choice)]
                ELSE [none EXCEPT !.fail = TRUE]
            ELSE [none EXCEPT !.replace_index = PyChoice(match_indices, match_choice)]
        ELSE
            IF rel # <<>> THEN
                LET anchor == PyChoice(rel, match_choice)
                    ibl == Ascending({ i \in IndexSet(line_indices) : i < anchor },
                                     0, Len(lines))
                    ial == Ascending({ i \in IndexSet(line_indices) : i > anchor },
                                     0, Len(lines))
                    d1 == IF Truthy(a.insertbefore) THEN
                              IF Len(ibl) > 0
                              THEN [none EXCEPT !.keep_index = ibl[Len(ibl)]]
                              ELSE [none EXCEPT !.insert_index = anchor]
                          ELSE none
                IN  IF Truthy(ia) THEN
                        IF Len(ial) > 0
                        THEN [d1 EXCEPT !.keep_index = ial[1]]
                        ELSE [d1 EXCEPT !.insert_index = anchor + 1]
                    ELSE d1
            ELSE [none EXCEPT !.keep_index = PyChoice(line_indices, match_choice)]

\* The dedupe schedule, lines 240-244
RECURSIVE DedupeIndices(_, _, _)
DedupeIndices(cands, keep_index, insert_index) ==
    IF cands = <<>> THEN <<>>
    ELSE IF Head(cands) > keep_index /\ TruthyIdx(insert_index)
         THEN <<Head(cands) + 1>> \o DedupeIndices(Tail(cands), keep_index, insert_index)
    ELSE IF Head(cands) # keep_index
         THEN <<Head(cands)>> \o DedupeIndices(Tail(cands), keep_index, insert_index)
    ELSE DedupeIndices(Tail(cands), keep_index, insert_index)

\* The deletion loop, lines 246-250.  Each round formats new_lines[1] into
\* its log message before it deletes, so a list shorter than two lines is an
\* IndexError, as is a deletion past the end.
RECURSIVE DeleteAll(_, _)
DeleteAll(new_lines, todo) ==
    IF todo = <<>> THEN [err |-> FALSE, new_lines |-> new_lines]
    ELSE IF Len(new_lines) < 2 \/ Head(todo) >= Len(new_lines)
         THEN [err |-> TRUE, new_lines |-> new_lines]
         ELSE DeleteAll(PyDel(new_lines, Head(todo)), Tail(todo))

\* self.result and the locals of _ensure_line_present before it starts.
\* status is "none" while it runs, then "ok", or "fail" for an
\* AnsibleActionFail, or "crash" for an IndexError; action is the primary
\* action that was applied: "insert", "replace", "keep" (an existing line
\* stands, nothing is mutated) or "none".
NoResult ==
    [status |-> "none", action |-> "none", msg |-> "", new_lines |-> <<>>,
     primary_lines |-> <<>>, insert_index |-> NoneIdx, replace_index |-> NoneIdx,
     keep_index |-> NoneIdx, decided_keep |-> NoneIdx,
     dedupe_indices |-> <<>>, dedupe_count |-> 0, found |-> 0, runs |-> 1]

NoScan == [line_indices |-> <<>>, match_indices |-> <<>>,
           relative_insert_indices |-> <<>>]

-----------------------------------------------------------------------------
(* The plugin instances before anything runs *)

\* no command plugin instance
NoCommand ==
    [pc |-> "idle", caller |-> "none", arg_force_raw |-> FALSE,
     force_raw |-> FALSE, check_mode |-> FALSE, chdir |-> "none",
     creates |-> "none", removes |-> "none", native |-> 0, raw |-> 0,
     exec |-> 0, native_kind |-> "none", result_raw |-> FALSE, rc |-> 0,
     changed |-> FALSE, trace |-> <<>>, override |-> "None", msg |-> "",
     skipped |-> FALSE]

\* no slurp64 plugin instance
NoSlurp ==
    [pc |-> "idle", arg_force_raw |-> FALSE, force_raw |-> FALSE,
     native |-> 0, detected |-> FALSE, result_raw |-> "unset"]

NoOp == [pc |-> "idle", force_raw |-> FALSE, check_mode |-> FALSE, log |-> <<>>]

CmdIdle == op = NoOp /\ sl = NoSlurp /\ cm = NoCommand

\* a path that does not exist on the remote host
Missing == [kind |-> "missing", content |-> <<>>, mode |-> ""]

\* no _write_file call
NoWrite ==
    [pc |-> "idle", content |-> [type |-> "list", list |-> <<>>, str |-> <<>>],
     perms_mode |-> "None", backup |-> FALSE, validate_cmd |-> FALSE,
     check_mode |-> FALSE, lines |-> <<>>, changed |-> FALSE,
     backup_file |-> FALSE, validate_result |-> [rc |-> 0, stderr |-> ""],
     status |-> "none", msg |-> "", stderr |-> "", ran |-> {},
     dest0 |-> Missing, backups0 |-> 0, history |-> <<>>, symlink0 |-> FALSE]

NoHost ==
    [dest |-> Missing, tmpfile |-> Missing, backups |-> 0,
     backup_copy |-> Missing, shell_tmpdir |-> "None", python_missing |-> FALSE,
     dest_is_symlink |-> FALSE, link_target |-> Missing]

WrIdle == wr = NoWrite /\ host = NoHost

\* no run() of lineinfile_dedupe
NoRun ==
    [pc |-> "idle", state |-> "present", regexp |-> "none", anchor |-> "none",
     dest |-> "missing", parent_exists |-> TRUE, create |-> FALSE,
     has_lines |-> FALSE,
     failed |-> FALSE, msg |-> "", re_m |-> FALSE, re_ins |-> "unset",
     ran |-> {}, cleaned |-> FALSE]

RnIdle == rn = NoRun

\* the keys _compare_content_and_perms and _apply_perms_and_selinux loop
\* over, in their order, and the mode, which they treat after the loop
PermKeys == <<"owner", "group", "selevel", "serole", "setype", "seuser">>

SeKeys == {"selevel", "serole", "setype", "seuser"}

AllKeys == {PermKeys[i] : i \in 1..Len(PermKeys)} \cup {"mode"}

\* no permission handling
NoPerms ==
    [pc |-> "idle", perms |-> [k \in AllKeys |-> "None"],
     dest_perms |-> [k \in AllKeys |-> "None"], exists |-> FALSE,
     lines_differ |-> FALSE, changed |-> FALSE, status |-> "none", msg |-> "",
     ran |-> <<>>, nonzero |-> "none",
     mode0 |-> "None", owner0 |-> "None"]

PmIdle == pm = NoPerms

LpIdle ==
    /\ lp_args = [line |-> None]
    /\ lp_lines = <<>>
    /\ lp_pc = "idle"
    /\ lp_scan = NoScan
    /\ lp_res = NoResult

-----------------------------------------------------------------------------
(* lineinfile_dedupe: the state machine of _ensure_line_present *)

LpInit ==
    /\ lp_args \in LpArgSpace
    /\ lp_lines \in SeqsUpTo(LineVals, MaxLines)
    /\ lp_pc = "scan"
    /\ lp_scan = NoScan
    /\ lp_res = NoResult
    /\ CmdIdle
    /\ WrIdle
    /\ RnIdle
    /\ PmIdle

\* lines 71-122: new_lines = lines[:] and the scan over the lines
LpScan ==
    /\ lp_pc = "scan"
    /\ lp_scan' = [line_indices |-> LineIndices(lp_args, lp_lines),
                   match_indices |-> MatchIndices(lp_args, lp_lines),
                   relative_insert_indices |-> RelativeInsertIndices(lp_args, lp_lines)]
    /\ lp_res' = [lp_res EXCEPT !.new_lines = lp_lines, !.primary_lines = lp_lines]
    /\ lp_pc' = "decide"
    /\ UNCHANGED <<lp_args, lp_lines, cmdVars, wrVars, rnVars, pmVars>>

\* lines 124-202: the decision tree
LpDecide ==
    /\ lp_pc = "decide"
    /\ LET d == Decide(lp_args, lp_lines, lp_scan.line_indices,
                       lp_scan.match_indices, lp_scan.relative_insert_indices)
       IN  /\ lp_res' = [lp_res EXCEPT !.insert_index = d.insert_index,
                                       !.replace_index = d.replace_index,
                                       !.keep_index = d.keep_index,
                                       !.decided_keep = d.keep_index,
                                       !.status = IF d.fail THEN "fail" ELSE "none"]
           /\ lp_pc' = IF d.fail THEN "done" ELSE "mutate"
    /\ UNCHANGED <<lp_args, lp_lines, lp_scan, cmdVars, wrVars, rnVars, pmVars>>

\* lines 204-208: insert
LpInsert ==
    /\ lp_pc = "mutate"
    /\ lp_res.insert_index # NoneIdx
    /\ lp_res' = [lp_res EXCEPT
                    !.action = "insert", !.msg = "line added",
                    !.new_lines = PyInsert(lp_res.new_lines, lp_res.insert_index,
                                           lp_args.line),
                    !.primary_lines = PyInsert(lp_res.new_lines, lp_res.insert_index,
                                               lp_args.line),
                    !.keep_index = lp_res.insert_index,
                    !.status = IF lp_args.dedupe THEN "none" ELSE "ok"]
    /\ lp_pc' = IF lp_args.dedupe THEN "dedupe" ELSE "done"
    /\ UNCHANGED <<lp_args, lp_lines, lp_scan, cmdVars, wrVars, rnVars, pmVars>>

\* lines 210-224: replace
LpReplace ==
    /\ lp_pc = "mutate"
    /\ lp_res.insert_index = NoneIdx
    /\ lp_res.replace_index # NoneIdx
    /\ LET expanded_line ==
               IF lp_args.backrefs /\ Truthy(lp_args.regexp)
               THEN ExpandLine(lp_args, At(lp_lines, lp_res.replace_index))
               ELSE lp_args.line
           replaced == PySet(lp_res.new_lines, lp_res.replace_index, expanded_line)
       IN  lp_res' = [lp_res EXCEPT
                        !.action = "replace", !.msg = "line replaced",
                        !.new_lines = replaced, !.primary_lines = replaced,
                        !.keep_index = lp_res.replace_index,
                        !.status = IF lp_args.dedupe THEN "none" ELSE "ok"]
    /\ lp_pc' = IF lp_args.dedupe THEN "dedupe" ELSE "done"
    /\ UNCHANGED <<lp_args, lp_lines, lp_scan, cmdVars, wrVars, rnVars, pmVars>>

\* lines 226-236: neither insert nor replace.  'if keep_index:' and, when
\* that is false, 'elif not match_indices: raise'
LpKeep ==
    /\ lp_pc = "mutate"
    /\ lp_res.insert_index = NoneIdx
    /\ lp_res.replace_index = NoneIdx
    /\ IF ~TruthyIdx(lp_res.keep_index) /\ lp_scan.match_indices = <<>>
       THEN /\ lp_res' = [lp_res EXCEPT !.status = "fail"]
            /\ lp_pc' = "done"
       ELSE /\ lp_res' = [lp_res EXCEPT
                            !.action = IF lp_res.keep_index # NoneIdx
                                       THEN "keep" ELSE "none",
                            !.status = IF lp_args.dedupe THEN "none" ELSE "ok"]
            /\ lp_pc' = IF lp_args.dedupe THEN "dedupe" ELSE "done"
    /\ UNCHANGED <<lp_args, lp_lines, lp_scan, cmdVars, wrVars, rnVars, pmVars>>

\* lines 238-252: the dedupe pass ('i > keep_index' with keep_index None is
\* a TypeError)
LpDedupe ==
    /\ lp_pc = "dedupe"
    /\ LET cands == lp_scan.match_indices \o lp_scan.line_indices
           sched == DedupeIndices(cands, lp_res.keep_index, lp_res.insert_index)
           del == DeleteAll(lp_res.new_lines, SortedDesc(sched))
       IN  IF lp_res.keep_index = NoneIdx /\ cands # <<>>
           THEN lp_res' = [lp_res EXCEPT !.status = "crash"]
           ELSE lp_res' = [lp_res EXCEPT
                             !.dedupe_indices = sched,
                             !.dedupe_count = Len(sched),
                             !.new_lines = del.new_lines,
                             !.status = IF del.err THEN "crash" ELSE "ok"]
    /\ lp_pc' = "done"
    /\ UNCHANGED <<lp_args, lp_lines, lp_scan, cmdVars, wrVars, rnVars, pmVars>>

\* run, lines 553-574, once more with the same arguments: the first run
\* succeeded and _write_file wrote new_lines, which _read_file now reads
LpAgain ==
    /\ lp_pc = "done"
    /\ lp_res.status = "ok"
    /\ lp_res.runs = 1
    /\ lp_lines' = lp_res.new_lines
    /\ lp_scan' = NoScan
    /\ lp_res' = [NoResult EXCEPT !.runs = 2]
    /\ lp_pc' = "scan"
    /\ UNCHANGED <<lp_args, cmdVars, wrVars, rnVars, pmVars>>

LpNext ==
    \/ LpScan \/ LpDecide \/ LpInsert \/ LpReplace \/ LpKeep \/ LpDedupe
    \/ LpAgain

SpecLine == LpInit /\ [][LpNext]_vars

-----------------------------------------------------------------------------
(* posix_base: _is_interpreter_missing and _run_action *)

\* Python values a result holds.  A dict is a record with type "dict",
\* the set of its keys, and one field for each key.
PyInt(n) == [type |-> "int", val |-> n]

PyStr(str) == [type |-> "str", val |-> str]

PyList(items) == [type |-> "list", val |-> items]

PyNone == [type |-> "NoneType", val |-> 0]

\* dict.get(key, default)
DictGet(dict, key, default) == IF key \in dict.keys THEN dict[key] ELSE default

\* str.lower left out
PyLower_Identity(str) == str

\* str.lower, over the letters the model's messages are made of
PyLower(str) == [k \in 1..Len(str) |-> IF str[k] = "T" THEN "t" ELSE str[k]]

\* canary_str, lines 103-106, "The module failed to execute correctly, you
\* probably need to set the interpreter", cut down to two letters
canary_str == <<"T", "i">>

\* What ansible's _execute_module hands back: the module ran and succeeded,
\* ran and failed, ran a shell that found no such command (rc 127), could
\* not start for want of an interpreter (rc 127 and ansible's "you probably
\* need to set the interpreter" message), or the call raised.
NativeResults ==
    { [kind |-> "ok", raised |-> FALSE, type |-> "dict", keys |-> {"rc", "msg"},
       rc |-> PyInt(0), msg |-> PyStr(<<>>)],
      [kind |-> "failed", raised |-> FALSE, type |-> "dict", keys |-> {"rc", "msg"},
       rc |-> PyInt(1), msg |-> PyStr(<<"x">>)],
      [kind |-> "notfound", raised |-> FALSE, type |-> "dict", keys |-> {"rc", "msg"},
       rc |-> PyInt(127), msg |-> PyStr(<<"x">>)],
      [kind |-> "nointerp", raised |-> FALSE, type |-> "dict", keys |-> {"rc", "msg"},
       rc |-> PyInt(127), msg |-> PyStr(<<"T", "i", "x">>)],
      [kind |-> "exception", raised |-> TRUE, type |-> "dict", keys |-> {"rc", "msg"},
       rc |-> PyInt(1), msg |-> PyStr(<<"x">>)] }

\* A rc of 127 together with the canary text in msg, only-rc mistaken for it
IsInterpreterMissing_RcOnly(result) == DictGet(result, "rc", PyNone) = PyInt(127)

\* _is_interpreter_missing, lines 94-114: the value returned
IsInterpreterMissing(result) ==
    IF result.type # "dict" THEN FALSE
    ELSE LET rc == DictGet(result, "rc", PyNone)
             msg == DictGet(result, "msg", PyStr(<<>>))
         IN  IF ~(rc.type = "int" /\ rc.val = 127) THEN FALSE
             ELSE IF msg.type # "str" THEN FALSE
             ELSE Contains(PyLower(msg.val), PyLower(canary_str))

\* task.args without _force_raw, whatever the caller's force_raw
CarriedForceRaw_Dropped(self_force_raw) == FALSE

\* _run_action, lines 149-150: the _force_raw the delegated plugin is given;
\* the key is added when self.force_raw is true, else the plugin's argument
\* spec defaults it to false
CarriedForceRaw(self_force_raw) == IF self_force_raw THEN TRUE ELSE FALSE

\* the override alone, the task's own check mode never inherited
DelegatedCheckMode_IgnoresTask(override, task_check_mode) == override = "True"

\* _run_action, lines 162-163: the check mode the delegated plugin runs in
DelegatedCheckMode(override, task_check_mode) ==
    IF override # "None" THEN override = "True" ELSE task_check_mode

\* _run_action, lines 167-168, in the calling plugin
AfterCall(self_force_raw, result_raw) == self_force_raw \/ result_raw

\* command.run, lines 266-319: a command plugin instance; self.force_raw is
\* the popped _force_raw
CommandFrame(caller, force_raw, check_mode, chdir, creates, removes) ==
    [NoCommand EXCEPT !.pc = "native", !.caller = caller,
                      !.arg_force_raw = force_raw, !.force_raw = force_raw,
                      !.check_mode = check_mode, !.chdir = chdir,
                      !.creates = creates, !.removes = removes]

\* a path argument of the command plugin: not given, or naming something
\* that exists or is missing on the remote host
PathArgs == {"none", "exists", "missing"}

\* _raw_cmd lines 162-170 alone: removes is not looked at
SkippedByCreatesRemoves_CreatesOnly(c) == c.creates = "exists"

\* creates/removes stop the command before it runs (_raw_cmd lines 162-185)
SkippedByCreatesRemoves(c) == c.creates = "exists" \/ c.removes = "missing"

\* _raw_cmd, line 154, with the return code of 'cd' not looked at
ChdirFails_Ignored(c) == FALSE

\* _raw_cmd, lines 148-157: 'cd <dir>' answers nonzero
ChdirFails(c) == c.chdir = "missing"

\* the main command run whatever the check mode
Executes_InCheckMode(c) == TRUE

\* _raw_cmd, lines 188-189: the main command is run
Executes(c) == ~c.check_mode

\* _raw_cmd, line 160 and lines 165, 175-178: the message of a run that
\* creates or removes stopped
NotRunMsg(c) ==
    IF c.check_mode THEN "Would not run command" ELSE "Did not run command"

\* _raw_cmd, line 212
WouldHaveRunMsg == "Command would have run if not in check mode"

\* _raw_cmd, lines 237-238: the message after the main command
RcMsg(rc) == IF rc # 0 THEN "non-zero return code" ELSE ""

\* _raw_cmd, lines 148-176: the low-level commands run ahead of the main
\* command, in their order: 'cd' when chdir is given, 'test -e' of creates
\* when it is given and, unless that one stopped the run, of removes
TestsRun(c) ==
    (IF c.chdir # "none" THEN <<"cd">> ELSE <<>>)
    \o (IF c.creates # "none" THEN <<"test creates">> ELSE <<>>)
    \o (IF c.removes # "none" /\ c.creates # "exists"
        THEN <<"test removes">> ELSE <<>>)

-----------------------------------------------------------------------------
(* command plugin, slurp64 plugin and a delegating plugin: the state machine *)

CmdInit ==
    /\ LpIdle
    /\ WrIdle
    /\ RnIdle
    /\ PmIdle
    /\ \/ /\ op \in { [NoOp EXCEPT !.pc = "ready", !.force_raw = f, !.check_mode = c]
                        : f \in BOOLEAN, c \in BOOLEAN }
          /\ cm = NoCommand
       \/ /\ op \in { [NoOp EXCEPT !.pc = "task", !.check_mode = c] : c \in BOOLEAN }
          /\ cm \in { CommandFrame("task", f, op.check_mode, d, cr, rm) :
                        f \in BOOLEAN, d \in PathArgs, cr \in PathArgs,
                        rm \in PathArgs }
    /\ sl = NoSlurp

\* _cmd, lines 172-211, into _run_action, lines 136-165
OpCmd ==
    /\ op.pc = "ready"
    /\ Len(op.log) < MaxCalls
    /\ \E override \in {"None", "False"} :
         cm' = [CommandFrame("op", CarriedForceRaw(op.force_raw),
                             DelegatedCheckMode(override, op.check_mode),
                             "none", "none", "none")
                  EXCEPT !.override = override]
    /\ op' = [op EXCEPT !.pc = "in_cmd"]
    /\ UNCHANGED <<sl, lpVars, wrVars, rnVars, pmVars>>

\* _slurp, lines 213-230, into _run_action and slurp64.run, lines 71-94
OpSlurp ==
    /\ op.pc = "ready"
    /\ Len(op.log) < MaxCalls
    /\ sl' = [NoSlurp EXCEPT !.pc = "native",
                             !.arg_force_raw = CarriedForceRaw(op.force_raw),
                             !.force_raw = CarriedForceRaw(op.force_raw)]
    /\ op' = [op EXCEPT !.pc = "in_slurp"]
    /\ UNCHANGED <<cm, lpVars, wrVars, rnVars, pmVars>>

\* command.run, lines 321-343: the builtin command module.  It runs the
\* command unless the interpreter is missing, check mode is on or
\* creates/removes say to skip.
CmdNative ==
    /\ cm.pc = "native"
    /\ ~cm.force_raw
    /\ \E r \in NativeResults :
         LET ran == r.kind \in {"ok", "failed", "notfound"} /\ ~cm.check_mode
                    /\ ~SkippedByCreatesRemoves(cm)
             c1 == [cm EXCEPT !.native = @ + 1, !.native_kind = r.kind,
                              !.exec = IF ran THEN @ + 1 ELSE @]
         IN  cm' = IF r.raised THEN [c1 EXCEPT !.pc = "raised"]
                   ELSE IF ~IsInterpreterMissing(r)
                        THEN [c1 EXCEPT !.pc = "raw", !.result_raw = FALSE,
                                        !.rc = r.rc.val]
                        ELSE [c1 EXCEPT !.pc = "raw", !.force_raw = TRUE]
    /\ UNCHANGED <<op, sl, lpVars, wrVars, rnVars, pmVars>>

\* command.run, line 321, with force_raw set: no builtin module
CmdNativeSkipped ==
    /\ cm.pc = "native"
    /\ cm.force_raw
    /\ cm' = [cm EXCEPT !.pc = "raw"]
    /\ UNCHANGED <<op, sl, lpVars, wrVars, rnVars, pmVars>>

\* command.run, lines 345-349, and _raw_cmd, lines 79-241
CmdRaw ==
    /\ cm.pc = "raw"
    /\ cm.force_raw
    /\ \E exec_rc \in {0, 1} :
         LET c1 == [cm EXCEPT !.raw = @ + 1]
         IN  cm' = IF ChdirFails(cm)
                   THEN [c1 EXCEPT !.pc = "raised", !.trace = <<"cd">>]
                   ELSE IF SkippedByCreatesRemoves(cm)
                   THEN [c1 EXCEPT !.pc = "cleanup", !.rc = 0,
                                   !.changed = FALSE,
                                   !.msg = NotRunMsg(cm),
                                   !.trace = TestsRun(cm),
                                   !.result_raw = TRUE]
                   ELSE IF ~Executes(cm)
                   THEN [c1 EXCEPT !.pc = "cleanup", !.rc = 0,
                                   !.msg = WouldHaveRunMsg,
                                   !.skipped = cm.creates = "none"
                                               /\ cm.removes = "none",
                                   !.changed = ~(cm.creates = "none"
                                                 /\ cm.removes = "none"),
                                   !.trace = TestsRun(cm),
                                   !.result_raw = TRUE]
                   ELSE [c1 EXCEPT !.pc = "cleanup", !.rc = exec_rc,
                                   !.msg = RcMsg(exec_rc),
                                   !.changed = TRUE,
                                   !.trace = TestsRun(cm) \o <<"exec">>,
                                   !.exec = @ + 1, !.result_raw = TRUE]
    /\ UNCHANGED <<op, sl, lpVars, wrVars, rnVars, pmVars>>

\* command.run, line 345, with force_raw unset, and line 351
CmdRawSkipped ==
    /\ cm.pc = "raw"
    /\ ~cm.force_raw
    /\ cm' = [cm EXCEPT !.pc = "cleanup"]
    /\ UNCHANGED <<op, sl, lpVars, wrVars, rnVars, pmVars>>

\* command.run, lines 351-353: _remove_tmp_path and return
CmdCleanup ==
    /\ cm.pc = "cleanup"
    /\ cm' = [cm EXCEPT !.pc = "return"]
    /\ UNCHANGED <<op, sl, lpVars, wrVars, rnVars, pmVars>>

\* the command plugin was the task itself
CmdReturnToTask ==
    /\ cm.pc \in {"return", "raised"}
    /\ cm.caller = "task"
    /\ op' = [op EXCEPT !.pc = IF cm.pc = "raised" THEN "failed" ELSE "done"]
    /\ cm' = [cm EXCEPT !.pc = "over"]
    /\ UNCHANGED <<sl, lpVars, wrVars, rnVars, pmVars>>

\* _run_action, lines 165-170, back in the delegating plugin
CmdReturnToOp ==
    /\ cm.pc = "return"
    /\ cm.caller = "op"
    /\ op' = [op EXCEPT !.pc = "ready",
                        !.force_raw = AfterCall(@, cm.result_raw),
                        !.log = Append(@, [plugin |-> "command",
                                           forced |-> cm.arg_force_raw,
                                           native |-> cm.native,
                                           raw |-> cm.result_raw])]
    /\ cm' = NoCommand
    /\ UNCHANGED <<sl, lpVars, wrVars, rnVars, pmVars>>

\* an exception of the command plugin leaves every plugin above it
CmdRaise ==
    /\ cm.pc = "raised"
    /\ cm.caller \in {"op", "slurp"}
    /\ op' = [op EXCEPT !.pc = "failed"]
    /\ cm' = [cm EXCEPT !.pc = "over"]
    /\ sl' = IF cm.caller = "slurp" THEN [sl EXCEPT !.pc = "over"] ELSE sl
    /\ UNCHANGED <<lpVars, wrVars, rnVars, pmVars>>

\* slurp64.run, lines 103-122 and 135-154: the builtin slurp module.  An
\* exception is turned into a result with rc 127 and no msg, and result
\* gets no "raw" key.
SlurpNative ==
    /\ sl.pc = "native"
    /\ ~sl.force_raw
    /\ \E r \in NativeResults :
         LET s1 == [sl EXCEPT !.native = @ + 1]
             ansible_slurp_mod == IF r.raised
                                  THEN [r EXCEPT !.rc = PyInt(127), !.keys = {"rc"}]
                                  ELSE r
         IN  sl' = IF IsInterpreterMissing(ansible_slurp_mod)
                   THEN [s1 EXCEPT !.pc = "cat", !.force_raw = TRUE,
                                   !.detected = TRUE,
                                   !.result_raw = "False"]
                   ELSE [s1 EXCEPT !.pc = "finish",
                                   !.result_raw = IF r.raised THEN "unset"
                                                  ELSE "False"]
    /\ UNCHANGED <<op, cm, lpVars, wrVars, rnVars, pmVars>>

\* slurp64.run, lines 96-98 and 131: _cat, lines 243-245, into _cmd and
\* _run_action
SlurpCat ==
    /\ sl.pc \in {"native", "cat"}
    /\ sl.force_raw
    /\ cm' = [CommandFrame("slurp", CarriedForceRaw(sl.force_raw),
                           DelegatedCheckMode("False", op.check_mode),
                           "none", "none", "none")
                EXCEPT !.override = "False"]
    /\ sl' = [sl EXCEPT !.pc = "in_cat"]
    /\ UNCHANGED <<op, lpVars, wrVars, rnVars, pmVars>>

\* _run_action, lines 165-170, and _cat, lines 246-258, back in slurp64.run,
\* lines 100-101 and 133-134
CmdReturnToSlurp ==
    /\ cm.pc = "return"
    /\ cm.caller = "slurp"
    /\ sl' = [sl EXCEPT !.pc = "finish",
                        !.force_raw = AfterCall(@, cm.result_raw),
                        !.native = @ + cm.native,
                        !.result_raw = "True"]
    /\ cm' = NoCommand
    /\ UNCHANGED <<op, lpVars, wrVars, rnVars, pmVars>>

\* slurp64.run, lines 156-167, and _run_action, lines 165-170, back in the
\* delegating plugin: result["raw"] raises KeyError when the key is missing
SlurpReturn ==
    /\ sl.pc = "finish"
    /\ IF sl.result_raw = "unset"
       THEN /\ op' = [op EXCEPT !.pc = "failed"]
            /\ sl' = [sl EXCEPT !.pc = "over"]
       ELSE /\ op' = [op EXCEPT !.pc = "ready",
                                !.force_raw = AfterCall(@, sl.result_raw = "True"),
                                !.log = Append(@, [plugin |-> "slurp64",
                                                   forced |-> sl.arg_force_raw,
                                                   native |-> sl.native,
                                                   raw |-> sl.result_raw = "True"])]
            /\ sl' = NoSlurp
    /\ UNCHANGED <<cm, lpVars, wrVars, rnVars, pmVars>>

CmdNext ==
    \/ OpCmd \/ OpSlurp
    \/ CmdNative \/ CmdNativeSkipped \/ CmdRaw \/ CmdRawSkipped \/ CmdCleanup
    \/ CmdReturnToTask \/ CmdReturnToOp \/ CmdRaise
    \/ SlurpNative \/ SlurpCat \/ CmdReturnToSlurp \/ SlurpReturn

SpecCmd == CmdInit /\ [][CmdNext]_vars

-----------------------------------------------------------------------------
(* lineinfile_dedupe: properties *)

\* a line the dedupe pass is about: it equals the desired line or matches
\* regexp/search_string
IsCandidate(a, l) ==
    l = a.line \/ Matches(a, l)

\* how many lines of s are candidates, and how many equal the desired line
CountCandidates(a, s) == Cardinality({ k \in 1..Len(s) : IsCandidate(a, s[k]) })
CountExact(a, s) == Cardinality({ k \in 1..Len(s) : s[k] = a.line })

\* s without the (0-based) positions in D
RemoveAt(s, D) ==
    LET kept == Ascending((0..(Len(s) - 1)) \ D, 0, Len(s))
    IN  [k \in 1..Len(kept) |-> At(s, kept[k])]

\* C2: with state=present and dedupe=true the run succeeds and the resulting
\* lines hold exactly one line that equals the desired line or matches
\* regexp/search_string (the one kept, replaced or inserted).
C2_DedupeLeavesExactlyOne ==
    (lp_pc = "done" /\ lp_args.dedupe) =>
        /\ lp_res.status = "ok"
        /\ CountCandidates(lp_args, lp_res.new_lines) = 1

\* C3: the dedupe pass deletes exactly the scheduled lines, each once: the
\* original exact or pattern matches other than the kept/replaced one,
\* shifted by one at or after an insertion point; nothing else is deleted
\* and no deletion is out of range.
C3_DedupeDeletesExactlyScheduled ==
    (lp_pc = "done" /\ lp_args.dedupe /\ lp_res.status # "fail") =>
        LET cands == IndexSet(MatchIndices(lp_args, lp_lines))
                       \cup IndexSet(LineIndices(lp_args, lp_lines))
            inserted == lp_res.action = "insert"
            others == IF inserted THEN cands ELSE cands \ {lp_res.keep_index}
            Shift(i) == IF inserted /\ i >= lp_res.insert_index THEN i + 1 ELSE i
            scheduled == { Shift(i) : i \in others }
        IN  /\ lp_res.status = "ok"
            /\ Len(lp_res.dedupe_indices) = Cardinality(scheduled)
            /\ IndexSet(lp_res.dedupe_indices) = scheduled
            /\ lp_res.new_lines = RemoveAt(lp_res.primary_lines, scheduled)

\* C4: every validated state=present input ends with exactly one primary
\* action (insert, replace or keep), driven by exactly one of insert_index,
\* replace_index, keep_index, and never with the "no lines found" error.
C4_ExactlyOnePrimaryAction ==
    lp_pc = "done" =>
        LET set == { n \in {"insert", "replace", "keep"} :
                        \/ n = "insert" /\ lp_res.insert_index # NoneIdx
                        \/ n = "replace" /\ lp_res.replace_index # NoneIdx
                        \/ n = "keep" /\ lp_res.decided_keep # NoneIdx }
        IN  /\ lp_res.status # "fail"
            /\ Cardinality(set) = 1
            /\ lp_res.action \in set

\* C5: when some line equals the desired line and no insertafter/insertbefore
\* pattern is configured, the chosen exact match (first if firstmatch, else
\* last) is kept, nothing is inserted or replaced, and the run does not fail.
C5_ExactMatchKept ==
    (lp_pc = "done" /\ LineIndices(lp_args, lp_lines) # <<>>
                   /\ ReIns(lp_args) = None) =>
        /\ lp_res.status = "ok"
        /\ lp_res.action = "keep"
        /\ lp_res.keep_index =
               PyChoice(LineIndices(lp_args, lp_lines),
                        IF lp_args.firstmatch THEN 0 ELSE -1)
        /\ lp_res.primary_lines = lp_lines
        /\ CountExact(lp_args, lp_res.new_lines) >= 1

\* the 0-based positions of the lines the anchor pattern matches, and the
\* one chosen: the first with firstmatch, else the last
AnchorPositions ==
    { i \in 0..(Len(lp_lines) - 1) :
        ReIns(lp_args) # None /\ Contains(At(lp_lines, i), ReIns(lp_args)) }

ChosenAnchor ==
    IF lp_args.firstmatch
    THEN CHOOSE i \in AnchorPositions : \A j \in AnchorPositions : i <= j
    ELSE CHOOSE i \in AnchorPositions : \A j \in AnchorPositions : i >= j

\* the positions of the lines that equal the desired line
ExactPositions == { i \in 0..(Len(lp_lines) - 1) : At(lp_lines, i) = lp_args.line }

\* the insertion point next to the chosen anchor
AdjacentToAnchor ==
    IF Truthy(lp_args.insertbefore) THEN ChosenAnchor ELSE ChosenAnchor + 1

\* C21: an exact match exists and the anchor pattern matches: when an
\* exact match sits on the correct side of the chosen anchor (before it
\* for insertbefore, after it for insertafter) the primary action keeps the
\* lines as they are; otherwise it inserts one new occurrence next to the
\* anchor and leaves the older exact matches in place.
C21_KeepOrInsertAtAnchor ==
    (lp_pc = "done" /\ ExactPositions # {} /\ AnchorPositions # {}) =>
        LET correct == { i \in ExactPositions :
                           IF Truthy(lp_args.insertbefore)
                           THEN i < ChosenAnchor ELSE i > ChosenAnchor }
        IN  /\ lp_res.status # "fail"
            /\ IF correct # {}
               THEN /\ lp_res.action = "keep"
                    /\ lp_res.primary_lines = lp_lines
               ELSE /\ lp_res.action = "insert"
                    /\ Len(lp_res.primary_lines) = Len(lp_lines) + 1
                    /\ At(lp_res.primary_lines, AdjacentToAnchor) = lp_args.line
                    /\ RemoveAt(lp_res.primary_lines, {AdjacentToAnchor}) = lp_lines

C37_PresentIdempotent ==
    (lp_pc = "done" /\ lp_res.runs = 2) =>
        /\ lp_res.status = "ok"
        /\ lp_res.new_lines = lp_lines

-----------------------------------------------------------------------------
(* command plugin and delegation: properties *)

\* some delegated call among the first n has come back with raw = true
RawSeen(n) == \E j \in 1..n : op.log[j].raw

\* C6: once a delegated call has returned raw = true or a plugin has found
\* the interpreter missing, force_raw stays true in that plugin: every later
\* delegated command or slurp64 call carries _force_raw = true, and a plugin
\* given _force_raw = true never invokes a builtin module and answers from
\* the raw path.
C6_ForceRawSticky ==
    /\ \A i \in 1..Len(op.log) :
         /\ RawSeen(i - 1) => op.log[i].forced
         /\ op.log[i].forced => (op.log[i].native = 0 /\ op.log[i].raw)
    /\ RawSeen(Len(op.log)) =>
         /\ op.force_raw
         /\ op.pc = "in_cmd" => cm.arg_force_raw
         /\ op.pc = "in_slurp" => sl.arg_force_raw
    /\ (cm.pc # "idle" /\ cm.arg_force_raw) => (cm.force_raw /\ cm.native = 0)
    /\ (sl.pc # "idle" /\ (sl.arg_force_raw \/ sl.detected)) =>
         /\ sl.force_raw
         /\ sl.pc = "in_cat" => (cm.arg_force_raw /\ cm.native = 0)
    /\ (sl.pc # "idle" /\ sl.arg_force_raw) => sl.native = 0

\* C6 witness: the first call fell back to raw by itself, and the slurp64
\* call after it was forced and never tried the builtin module
C6_Witness ==
    /\ Len(op.log) >= 2
    /\ ~op.log[1].forced /\ op.log[1].raw /\ op.log[1].native = 1
    /\ op.log[2].plugin = "slurp64" /\ op.log[2].forced
    /\ op.log[2].native = 0 /\ op.log[2].raw

\* C7: one command plugin invocation invokes the builtin module at most
\* once and the raw command at most once, the raw command only when
\* _force_raw was given or the one native result was interpreter-missing,
\* and the requested command runs on the remote host at most once.
C7_AtMostOnce ==
    cm.pc # "idle" =>
        /\ cm.native <= 1
        /\ cm.raw <= 1
        /\ cm.exec <= 1
        /\ cm.raw = 1 => (cm.arg_force_raw \/ cm.native_kind = "nointerp")
        /\ cm.arg_force_raw => cm.native = 0

\* C7 witness: the native attempt found no interpreter, the raw command
\* then ran the command, once
C7_Witness ==
    /\ cm.pc = "return"
    /\ ~cm.arg_force_raw
    /\ cm.native = 1 /\ cm.raw = 1 /\ cm.exec = 1

\* C24: in raw execution past the chdir test, when creates names a path that exists or removes
\* one that does not, the main command is not executed and the result has
\* rc 0 and changed false; when the command is executed, every existence
\* test came before it.
C24_CreatesRemovesGate ==
    cm.raw > 0 /\ cm.chdir # "missing" =>
        /\ (cm.creates = "exists" \/ cm.removes = "missing") =>
             /\ \A k \in 1..Len(cm.trace) : cm.trace[k] # "exec"
             /\ cm.exec = 0
             /\ cm.rc = 0
             /\ ~cm.changed
        /\ \A k \in 1..Len(cm.trace) :
             cm.trace[k] = "exec" => k = Len(cm.trace)
        /\ cm.creates # "none" =>
             \E k \in 1..Len(cm.trace) : cm.trace[k] = "test creates"
        /\ (cm.removes # "none" /\ cm.exec > 0) =>
             \E k \in 1..Len(cm.trace) : cm.trace[k] = "test removes"

\* C24 witness: creates is missing, removes is missing: the raw run tested
\* both and stopped
C24_Witness ==
    /\ cm.raw > 0 /\ cm.pc = "cleanup"
    /\ cm.creates = "missing" /\ cm.removes = "missing"
    /\ cm.trace = <<"test creates", "test removes">>
    /\ ~cm.check_mode

\* C25: in raw execution with chdir set, 'cd' is the first command run,
\* ahead of the creates/removes tests and of the main command; when it
\* answers nonzero the plugin raises at once and the main command is not
\* executed.
C25_ChdirFirstAndFatal ==
    (cm.raw > 0 /\ cm.chdir # "none") =>
        /\ cm.trace # <<>> /\ cm.trace[1] = "cd"
        /\ cm.chdir = "missing" =>
             /\ cm.pc \in {"raised", "over"}
             /\ cm.trace = <<"cd">>
             /\ cm.exec = 0

\* C25 witness: the directory is not there, creates and removes would both
\* have let the command run
C25_Witness ==
    /\ cm.raw > 0 /\ cm.chdir = "missing"
    /\ cm.creates = "missing" /\ cm.removes = "exists"
    /\ ~cm.check_mode
    /\ cm.pc = "raised"

-----------------------------------------------------------------------------
(* posix_base: _write_file and the helpers it calls *)

\* str.splitlines() on a string whose only line boundary is "\n"
RECURSIVE Splitlines(_)
Splitlines(s) ==
    IF s = <<>> THEN <<>>
    ELSE LET nl == { i \in 1..Len(s) : s[i] = "\n" }
         IN  IF nl = {} THEN <<s>>
             ELSE LET i == CHOOSE j \in nl : \A k \in nl : j <= k
                  IN  <<SubSeq(s, 1, i - 1)>> \o Splitlines(SubSeq(s, i + 1, Len(s)))

\* "\n".join(lines)
RECURSIVE PyJoin(_)
PyJoin(lines) ==
    IF lines = <<>> THEN <<>>
    ELSE IF Len(lines) = 1 THEN lines[1]
    ELSE lines[1] \o <<"\n">> \o PyJoin(Tail(lines))

\* str.rstrip("\r\n")
RECURSIVE RStripNewlines(_)
RStripNewlines(s) ==
    IF s # <<>> /\ s[Len(s)] = "\n" THEN RStripNewlines(SubSeq(s, 1, Len(s) - 1))
    ELSE s

ContentElems == {<<>>, <<"a">>}
ContentChars == {"a", "\n"}

\* the content argument: a list of strings or a string
ContentSpace ==
    { [type |-> "list", list |-> l, str |-> <<>>] :
        l \in SeqsUpTo(ContentElems, MaxContent) }
    \cup { [type |-> "str", list |-> <<>>, str |-> x] :
             x \in SeqsUpTo(ContentChars, MaxStr) }

\* _normalize_content, lines 698-715: the lines; str(line) of a string is
\* the string
NormalizeContent(content) ==
    IF content.type = "str" THEN Splitlines(content.str) ELSE content.list

\* The bytes a command reads on stdin.  command._raw_cmd, lines 92-94, adds
\* a newline to a non-empty stdin that does not end with one; the builtin
\* command module adds one to every non-empty stdin.
StdinData(stdin, raw) ==
    IF stdin = <<>> THEN stdin
    ELSE IF raw /\ stdin[Len(stdin)] = "\n" THEN stdin
    ELSE stdin \o <<"\n">>

\* What slurp64 hands back as content_lines for a file.  The builtin slurp
\* module returns the bytes; the raw path reads 'cat' through _raw_cmd, which
\* strips the trailing newlines of stdout (command.py lines 227-231).
ReadLines(content, raw) ==
    IF raw THEN Splitlines(RStripNewlines(content)) ELSE Splitlines(content)

\* the mode strings int(str(octal_mode), 8) accepts, line 821; any other
\* makes it raise ValueError, and makes 'chmod' answer nonzero
OctalModes == {"0644", "0600"}

\* the mode 'tee' gives a file it creates: 0666 less the umask of the
\* remote shell, 022 or 077
UmaskModes == {"0644", "0600"}

\* _convert_octal_mode_to_symbolic, lines 821-829, and the mode column of
\* 'ls -ld' that _get_perms cuts out, lines 645 and 672
Symbolic(octal_mode) ==
    CASE octal_mode = "0644" -> "rw-r--r--"
      [] octal_mode = "0600" -> "rw-------"
      [] OTHER -> "---------"

\* what the destination can be before the first call
DestStates ==
    {Missing, [kind |-> "directory", content |-> <<>>, mode |-> "0755"]}
    \cup { [kind |-> "file", content |-> c, mode |-> m] :
             c \in {<<>>, <<"a", "\n">>}, m \in {"0644", "0600"} }

\* Both callers hand _write_file the task's own check mode
\* (lineinfile_dedupe.py line 566, template.py line 425), which is what
\* every command it delegates inherits
TaskCheckMode(w) == w.check_mode

\* a delegated command with no check_mode override is skipped
Skipped(w) == DelegatedCheckMode("None", TaskCheckMode(w))

\* _validate_file, line 435, with the return code ignored
ValidationPassed_Always(result) == TRUE

\* _validate_file, line 435
ValidationPassed(result) == result.rc = 0

\* _write_file, lines 1166-1172: the result is returned
Return(w, h) ==
    [w EXCEPT !.pc = "returned", !.status = "ok",
              !.history = Append(@, [changed |-> w.changed,
                                     before |-> w.dest0,
                                     dest |-> h.dest])]

\* what the validation command can return
ValidateResults ==
    { [rc |-> 0, stderr |-> ""], [rc |-> 1, stderr |-> "syntax error"] }

\* _compare_content_and_perms, lines 859-909, with the 'ls' of _get_perms
\* run
Changed(lines, perms_mode, h) ==
    IF h.dest.kind = "missing" THEN TRUE
    ELSE \/ lines # ReadLines(h.dest.content, h.python_missing)
         \/ perms_mode # "None" /\ Symbolic(perms_mode) # Symbolic(h.dest.mode)

\* raise AnsibleActionFail(msg)
Fail(w, msg, stderr) ==
    [w EXCEPT !.pc = "failed", !.status = "fail", !.msg = msg, !.stderr = stderr]

-----------------------------------------------------------------------------
(* _write_file: the state machine *)

WrInit ==
    /\ LpIdle
    /\ CmdIdle
    /\ RnIdle
    /\ PmIdle
    /\ wr \in { [NoWrite EXCEPT !.pc = "tmp", !.content = c, !.perms_mode = m,
                                !.backup = b, !.validate_cmd = v,
                                !.check_mode = k] :
                  c \in ContentSpace, m \in {"None", "0644", "bad"},
                  b \in BOOLEAN,
                  v \in BOOLEAN, k \in BOOLEAN }
    /\ host \in { [NoHost EXCEPT !.dest = d, !.shell_tmpdir = t,
                                 !.python_missing = p,
                                 !.dest_is_symlink = l,
                                 !.link_target = IF l THEN d ELSE Missing] :
                    d \in DestStates, t \in {"None", "preset"}, p \in BOOLEAN,
                    l \in BOOLEAN }
    /\ host.dest_is_symlink => host.dest.kind = "file"

\* lines 1075-1087 and _make_raw_tmp_path, lines 1022-1040: mktemp, skipped
\* in check mode, answers rc 0 with an empty stdout
WrMakeRawTmpPath ==
    /\ wr.pc = "tmp"
    /\ LET w == [wr EXCEPT !.dest0 = host.dest, !.backups0 = host.backups,
                           !.symlink0 = host.dest_is_symlink]
       IN  IF host.shell_tmpdir # "None"
           THEN wr' = [w EXCEPT !.pc = "stat"] /\ host' = host
           ELSE IF Skipped(wr)
           THEN /\ wr' = Fail(w, "Failed to create temporary directory via raw fallback", "")
                /\ host' = host
           ELSE /\ wr' = [w EXCEPT !.pc = "stat", !.ran = @ \cup {"mktemp"}]
                /\ host' = [host EXCEPT !.shell_tmpdir = "raw"]
    /\ UNCHANGED <<lpVars, cmdVars, rnVars, pmVars>>

\* lines 1089-1098: _pseudo_stat of the destination, whose 'test' commands
\* run in check mode too, and _normalize_content
WrStat ==
    /\ wr.pc = "stat"
    /\ wr' = IF host.dest.kind = "directory"
             THEN Fail(wr, "Cannot write over directory", "")
             ELSE [wr EXCEPT !.pc = "tempfile",
                             !.lines = NormalizeContent(wr.content)]
    /\ UNCHANGED <<host, lpVars, cmdVars, rnVars, pmVars>>

\* lines 1101-1104: _mkdir finds the temporary directory in place;
\* _write_temp_file, lines 736-746, pipes the joined lines into 'tee', which
\* creates the file when it is not there
WrTempFile ==
    /\ wr.pc = "tempfile"
    /\ IF Skipped(wr)
       THEN wr' = [wr EXCEPT !.pc = "validate"] /\ host' = host
       ELSE /\ wr' = [wr EXCEPT !.pc = "chmod tmpfile", !.ran = @ \cup {"tee"}]
            /\ \E created \in UmaskModes :
                 host' = [host EXCEPT !.tmpfile =
                            [kind |-> "file",
                             content |-> StdinData(PyJoin(wr.lines), host.python_missing),
                             mode |-> IF host.tmpfile.kind = "file"
                                      THEN host.tmpfile.mode ELSE created]]
    /\ UNCHANGED <<lpVars, cmdVars, rnVars, pmVars>>

\* _write_temp_file, lines 748-756: chmod 0600 of the temp file
WrChmodTempFile ==
    /\ wr.pc = "chmod tmpfile"
    /\ wr' = [wr EXCEPT !.pc = "validate", !.ran = @ \cup {"chmod tmpfile"}]
    /\ host' = [host EXCEPT !.tmpfile.mode = "0600"]
    /\ UNCHANGED <<lpVars, cmdVars, rnVars, pmVars>>

\* lines 1107-1108 and _validate_file, lines 428-439
WrValidate ==
    /\ wr.pc = "validate"
    /\ IF ~wr.validate_cmd \/ Skipped(wr)
       THEN wr' = [wr EXCEPT !.pc = "backup"]
       ELSE \E result \in ValidateResults :
              LET w == [wr EXCEPT !.validate_result = result,
                                  !.ran = @ \cup {"validate"}]
              IN  wr' = IF ValidationPassed(result)
                        THEN [w EXCEPT !.pc = "backup"]
                        ELSE Fail(w, "Validation failed", result.stderr)
    /\ UNCHANGED <<host, lpVars, cmdVars, rnVars, pmVars>>

\* lines 1111-1112 and _create_backup, lines 454-469: 'test -e' and 'cp'
\* are both skipped in check mode and answer rc 0
WrBackup ==
    /\ wr.pc = "backup"
    /\ IF ~wr.backup
       THEN wr' = [wr EXCEPT !.pc = "compare"] /\ host' = host
       ELSE IF Skipped(wr)
       THEN wr' = [wr EXCEPT !.pc = "compare", !.backup_file = TRUE] /\ host' = host
       ELSE IF host.dest.kind = "missing"
       THEN wr' = [wr EXCEPT !.pc = "compare"] /\ host' = host
       ELSE /\ wr' = [wr EXCEPT !.pc = "compare", !.backup_file = TRUE,
                                !.ran = @ \cup {"cp"}]
            /\ host' = [host EXCEPT !.backups = @ + 1, !.backup_copy = host.dest]
    /\ UNCHANGED <<lpVars, cmdVars, rnVars, pmVars>>

\* lines 1115-1118 and _compare_content_and_perms, lines 853-909.  The 'ls'
\* of _get_perms, lines 639-645, is skipped in check mode and its result
\* has no first stdout line.  The requested mode is converted, lines
\* 891-905, when the destination exists.
WrCompare ==
    /\ wr.pc = "compare"
    /\ wr' = IF host.dest.kind # "missing" /\ Skipped(wr)
             THEN [wr EXCEPT !.pc = "failed", !.status = "crash"]
             ELSE IF /\ host.dest.kind # "missing"
                     /\ wr.perms_mode \notin OctalModes \cup {"None"}
             THEN Fail(wr, "Invalid mode", "")
             ELSE [wr EXCEPT !.pc = "apply",
                             !.changed = Changed(wr.lines, wr.perms_mode, host)]
    /\ UNCHANGED <<host, lpVars, cmdVars, rnVars, pmVars>>

\* line 1148, 'mv tmpfile dest': the name dest is given to the temp file.
\* When dest was a symbolic link the link is what is replaced; the file it
\* named stays as it was.
Mv(h) ==
    [h EXCEPT !.dest = h.tmpfile, !.tmpfile = Missing, !.dest_is_symlink = FALSE]

\* lines 1136-1154 and 1162-1172: the check mode message, or 'mv' of the
\* temp file onto the destination, or nothing
WrApply ==
    /\ wr.pc = "apply"
    /\ IF wr.check_mode
       THEN /\ wr' = Return([wr EXCEPT !.msg =
                               IF wr.changed
                               THEN "Check mode: changes would have been made."
                               ELSE "Check mode: no changes needed."], host)
            /\ host' = host
       ELSE IF ~wr.changed
       THEN /\ wr' = Return([wr EXCEPT !.msg = "File not changed"], host)
            /\ host' = host
       ELSE /\ wr' = [wr EXCEPT !.pc = "perms", !.ran = @ \cup {"mv"}]
            /\ host' = Mv(host)
    /\ UNCHANGED <<lpVars, cmdVars, rnVars, pmVars>>

\* lines 1157-1172 and _apply_perms_and_selinux, lines 938-1006: 'chmod'
\* of the destination, which answers nonzero for a mode it cannot read,
\* and the comparison of the mode read back
WrApplyPerms ==
    /\ wr.pc = "perms"
    /\ IF wr.perms_mode = "None"
       THEN /\ wr' = Return([wr EXCEPT !.msg = "File written successfully"], host)
            /\ host' = host
       ELSE IF wr.perms_mode \notin OctalModes
       THEN /\ wr' = Fail([wr EXCEPT !.ran = @ \cup {"chmod dest"}],
                          "Failed to chmod", "invalid mode")
            /\ host' = host
       ELSE LET h == [host EXCEPT !.dest.mode = wr.perms_mode]
            IN  /\ host' = h
                /\ wr' = Return([wr EXCEPT !.msg = "File written successfully",
                                           !.ran = @ \cup {"chmod dest"}], h)
    /\ UNCHANGED <<lpVars, cmdVars, rnVars, pmVars>>

\* the same call once more
WrAgain ==
    /\ wr.pc = "returned"
    /\ Len(wr.history) < MaxWrites
    /\ wr' = [wr EXCEPT !.pc = "tmp", !.lines = <<>>, !.changed = FALSE,
                        !.backup_file = FALSE, !.status = "none", !.msg = "",
                        !.validate_result = NoWrite.validate_result, !.ran = {}]
    /\ UNCHANGED <<host, lpVars, cmdVars, rnVars, pmVars>>

WrNext ==
    \/ WrMakeRawTmpPath \/ WrStat \/ WrTempFile \/ WrChmodTempFile
    \/ WrValidate \/ WrBackup \/ WrCompare \/ WrApply \/ WrApplyPerms
    \/ WrAgain

SpecWrite == WrInit /\ [][WrNext]_vars

-----------------------------------------------------------------------------
(* _write_file: properties *)

\* C1: two _write_file calls in a row with the same content and
\* permissions, not in check mode: the first reports changed when the
\* destination was not there, the second reports changed = false, and the
\* destination is the same after both; for every content the normalization
\* accepts, empty-string elements included.
C1_WriteIdempotent ==
    (wr.pc = "returned" /\ ~wr.check_mode /\ Len(wr.history) >= 2) =>
        /\ wr.history[1].before = Missing => wr.history[1].changed
        /\ ~wr.history[2].changed
        /\ wr.history[2].dest = wr.history[1].dest

\* C8: in check mode _write_file runs no mutating command: no temp file
\* moved into place, no chown/chgrp/chmod on the destination, no backup, and
\* the destination is what it was when the call began.
C8_CheckModeMutatesNothing ==
    (wr.check_mode /\ wr.pc \notin {"idle", "tmp"}) =>
        /\ wr.ran = {}
        /\ host.dest = wr.dest0
        /\ host.backups = wr.backups0
        /\ host.tmpfile = Missing

\* C8 witness: a check mode call with backup and validation asked for has
\* returned, reporting a change it did not make
C8_Witness ==
    /\ wr.check_mode /\ wr.backup /\ wr.validate_cmd
    /\ wr.pc = "returned" /\ wr.changed /\ wr.backup_file
    /\ host.dest = Missing

\* C9: where a real write would report changed = true, the check mode call
\* ends without error and reports changed = true, whether the destination is
\* missing or exists with other content or permissions.
C9_CheckModeSameChanged ==
    ( /\ wr.check_mode
      /\ wr.pc \in {"returned", "failed"}
      /\ wr.dest0.kind # "directory"
      /\ wr.perms_mode \in OctalModes \cup {"None"}
      /\ Changed(NormalizeContent(wr.content), wr.perms_mode, host) ) =>
        (wr.status = "ok" /\ wr.changed)

\* C10: a validation command that returns nonzero fails the call with the
\* command's stderr in the error, and nothing after it runs: no backup, no
\* mv of the temp file, no permission command; the destination is left as
\* it was.
C10_ValidationFailureStops ==
    wr.validate_result.rc # 0 =>
        /\ wr.pc = "failed" /\ wr.status = "fail"
        /\ wr.msg = "Validation failed"
        /\ wr.stderr = wr.validate_result.stderr
        /\ wr.ran \cap {"cp", "mv", "chmod dest"} = {}
        /\ host.dest = wr.dest0
        /\ host.backups = wr.backups0
        /\ host.tmpfile.kind = "file"

\* C10 witness: validation failed on a write that would have backed up and
\* replaced an existing file
C10_Witness ==
    /\ wr.validate_result.rc # 0
    /\ wr.status = "fail"
    /\ wr.backup /\ wr.dest0.kind = "file"
    /\ Changed(wr.lines, wr.perms_mode, host)

\* C12: a malformed mode string fails a call, not in check mode, as a
\* validation error before any remote mutation: no temp file is written, no backup made, and
\* the destination is neither created nor modified, whether or not it
\* existed.
C12_InvalidModeRejectedFirst ==
    ( /\ wr.perms_mode \notin OctalModes \cup {"None"}
      /\ ~wr.check_mode
      /\ wr.pc \notin {"idle", "tmp"}
      /\ wr.dest0.kind # "directory" ) =>
        /\ wr.ran \cap {"tee", "chmod tmpfile", "cp", "mv", "chmod dest"} = {}
        /\ host.dest = wr.dest0
        /\ host.backups = wr.backups0
        /\ wr.pc \in {"returned", "failed"} =>
             (wr.status = "fail" /\ wr.msg = "Invalid mode")

\* C13: while an existing destination is being replaced, it is at every
\* step a file holding either its old content or the whole new content, and
\* its mode is either the one it had before the write or the requested one.
C13_AtomicReplace ==
    ( /\ ~wr.check_mode
      /\ wr.pc \notin {"idle", "tmp"}
      /\ wr.dest0.kind = "file" ) =>
        /\ host.dest.kind = "file"
        /\ host.dest.content \in
             {wr.dest0.content, StdinData(PyJoin(wr.lines), host.python_missing)}
        /\ host.dest.mode \in {wr.dest0.mode, wr.perms_mode}

\* C15: whenever the temp file exists, from the moment 'tee' creates it,
\* its mode is 0600.
C15_TempFileAlways0600 ==
    host.tmpfile.kind = "file" => host.tmpfile.mode = "0600"

\* C16: a call with backup requested that returns has, when the destination
\* existed, made one backup whose content is the destination's as it was
\* before the write and returns backup_file; when the destination did not
\* exist it has made no backup and returns no backup_file.
C16_BackupBeforeWrite ==
    (wr.backup /\ wr.pc = "returned") =>
        IF wr.dest0.kind = "file"
        THEN /\ wr.backup_file
             /\ host.backups = wr.backups0 + 1
             /\ host.backup_copy = wr.dest0
        ELSE /\ ~wr.backup_file
             /\ host.backups = wr.backups0

\* C18: when a _write_file call has returned or raised, the temp file it
\* wrote no longer exists on the remote host.
C18_TempFileDestroyed ==
    wr.pc \in {"returned", "failed"} => host.tmpfile = Missing

\* C20: after a call that was given a list and returned, not in check mode,
\* the content_lines slurp64 reads from the destination are the list's
\* string-coerced elements: same length, same elements, same order.
C20_RoundTrip ==
    ( /\ wr.pc = "returned"
      /\ ~wr.check_mode
      /\ wr.content.type = "list" ) =>
        ReadLines(host.dest.content, host.python_missing)
          = NormalizeContent(wr.content)

\* C31: when dest is a symbolic link to a regular file, a write that
\* reports a change leaves dest a symbolic link and the new content in the
\* file the link names.
C31_SymlinkFollowed ==
    ( /\ wr.pc = "returned" /\ ~wr.check_mode
      /\ wr.symlink0 /\ wr.changed ) =>
        /\ host.dest_is_symlink
        /\ host.link_target.content
             = StdinData(PyJoin(wr.lines), host.python_missing)

\* C36: a _write_file call that fails, at whatever step, leaves the
\* destination with the content and the mode it had when the call began.
C36_FailureLeavesDestination ==
    (wr.pc = "failed" /\ ~wr.check_mode) => host.dest = wr.dest0

\* C38: a call that ends with changed = false has changed nothing on the
\* host: the destination is what it was and no backup file was added.
C38_UnchangedWriteNoBackup ==
    (wr.pc = "returned" /\ ~wr.changed /\ ~wr.check_mode) =>
        /\ host.dest = wr.dest0
        /\ host.backups = wr.backups0

-----------------------------------------------------------------------------
(* lineinfile_dedupe: run(), from argument audit to cleanup *)

\* A pattern argument: not given, one that compiles, one that does not
PatternKinds == {"none", "valid", "invalid"}

\* _audit_args, lines 318-337: the failure the filesystem state gives
StatFailure(r) ==
    IF r.dest = "directory" THEN "Path is a directory"
    ELSE IF r.dest = "missing" /\ ~r.create THEN "Destination does not exist"
    ELSE ""

\* _audit_args, lines 374-407: re.compile of regexp, then of insertafter or
\* insertbefore.  A failed compile returns a dictionary from _audit_args,
\* which run() drops (line 548); self.result is not touched, and what was
\* not yet assigned stays unassigned.
AuditPatterns(r) ==
    IF r.regexp = "invalid" THEN r
    ELSE IF r.anchor = "invalid"
    THEN [r EXCEPT !.re_m = (r.regexp = "valid"), !.re_ins = "None"]
    ELSE [r EXCEPT !.re_m = (r.regexp = "valid"),
                   !.re_ins = IF r.anchor = "valid" THEN "compiled" ELSE "None"]

RnInit ==
    /\ LpIdle
    /\ CmdIdle
    /\ WrIdle
    /\ PmIdle
    /\ rn \in { [NoRun EXCEPT !.pc = "audit", !.state = st, !.regexp = re,
                              !.anchor = an, !.dest = d, !.parent_exists = pe,
                              !.create = c, !.has_lines = h] :
                  st \in {"present", "absent"}, re \in PatternKinds,
                  an \in PatternKinds, d \in {"missing", "file", "directory"},
                  pe \in BOOLEAN, c \in BOOLEAN, h \in BOOLEAN }
    /\ rn.has_lines => rn.dest = "file"
    /\ rn.dest # "missing" => rn.parent_exists
    /\ rn.state = "absent" => rn.anchor = "none"

\* run(), lines 548-549, and _audit_args, lines 301-407
RnAudit ==
    /\ rn.pc = "audit"
    /\ LET stat_failure == StatFailure(rn)
           r1 == IF stat_failure # ""
                 THEN [rn EXCEPT !.failed = TRUE, !.msg = stat_failure]
                 ELSE rn
           r2 == AuditPatterns(r1)
       IN  rn' = [r2 EXCEPT !.pc = IF r2.failed THEN "cleanup" ELSE "read"]
    /\ UNCHANGED <<lpVars, cmdVars, wrVars, pmVars>>

\* run(), line 551, and _read_file, lines 416-427: a failed slurp raises
RnRead ==
    /\ rn.pc = "read"
    /\ \E slurp_ok \in BOOLEAN :
         rn' = IF rn.dest = "file" /\ ~slurp_ok
               THEN [rn EXCEPT !.pc = "raised", !.msg = "Could not read contents of file"]
               ELSE [rn EXCEPT !.pc = "patch"]
    /\ UNCHANGED <<lpVars, cmdVars, wrVars, pmVars>>

\* run(), lines 553-556: _ensure_line_present, lines 71-252, or
\* _remove_matching_lines, lines 258-284.  The first line scanned reads
\* self.re_m when regexp is given, and self.re_ins.  _ensure_line_present
\* can raise (lines 148, 236, 247-250); on a file without lines it inserts.
RnPatch ==
    /\ rn.pc = "patch"
    /\ \E mkdir_ok \in BOOLEAN, outcome \in {"ok", "raise"} :
         LET mk == rn.state = "present" /\ rn.create /\ ~rn.parent_exists
             r1 == IF mk THEN [rn EXCEPT !.ran = @ \cup {"mkdir"}] ELSE rn
             unset == \/ rn.regexp # "none" /\ ~rn.re_m
                      \/ rn.state = "present" /\ rn.re_ins = "unset"
         IN  rn' = IF mk /\ ~mkdir_ok
                   THEN [rn EXCEPT !.pc = "cleanup", !.failed = TRUE,
                                   !.msg = "Error creating directory"]
                   ELSE IF rn.has_lines /\ unset
                   THEN [r1 EXCEPT !.pc = "raised", !.msg = "AttributeError"]
                   ELSE IF rn.has_lines /\ rn.state = "present" /\ outcome = "raise"
                   THEN [r1 EXCEPT !.pc = "raised", !.msg = "No lines found, added or replaced"]
                   ELSE [r1 EXCEPT !.pc = "write"]
    /\ UNCHANGED <<lpVars, cmdVars, wrVars, pmVars>>

\* run(), lines 558-581: _write_file inside try/except Exception.  It
\* writes the temp file, and moves it when it finds a change.
RnWrite ==
    /\ rn.pc = "write"
    /\ \E outcome \in {"changed", "unchanged", "raise"} :
         rn' = CASE outcome = "changed" ->
                      [rn EXCEPT !.pc = "cleanup", !.msg = "File written successfully",
                                 !.ran = @ \cup {"mktemp", "tee", "mv"}]
                 [] outcome = "unchanged" ->
                      [rn EXCEPT !.pc = "cleanup", !.msg = "File not changed",
                                 !.ran = @ \cup {"mktemp", "tee"}]
                 [] OTHER ->
                      [rn EXCEPT !.pc = "cleanup", !.failed = TRUE,
                                 !.msg = "Failed to write file",
                                 !.ran = @ \cup {"mktemp", "tee"}]
    /\ UNCHANGED <<lpVars, cmdVars, wrVars, pmVars>>

\* run(), lines 583-586: _remove_tmp_path and return
RnCleanup ==
    /\ rn.pc = "cleanup"
    /\ rn' = [rn EXCEPT !.pc = "returned", !.cleaned = TRUE]
    /\ UNCHANGED <<lpVars, cmdVars, wrVars, pmVars>>

RnNext == RnAudit \/ RnRead \/ RnPatch \/ RnWrite \/ RnCleanup

SpecRun == RnInit /\ [][RnNext]_vars

-----------------------------------------------------------------------------
(* lineinfile_dedupe run(): properties *)

\* C11: a regexp, insertafter or insertbefore that does not compile ends
\* the run as a failed result whose message names the invalid pattern, not
\* as an exception out of the algorithm, and before any remote mutation: no
\* mkdir, temp-file write, backup or move.
C11_InvalidPatternReported ==
    ( /\ rn.pc \in {"returned", "raised"}
      /\ StatFailure(rn) = ""
      /\ rn.regexp = "invalid" \/ rn.anchor = "invalid" ) =>
        /\ rn.pc = "returned"
        /\ rn.failed
        /\ rn.msg \in {"Invalid regexp pattern", "Invalid anchor pattern"}
        /\ rn.ran = {}

\* C17: run() has done its temp-path cleanup whenever it is left, by return
\* or by exception.
C17_CleanupOnEveryExit ==
    rn.pc \in {"returned", "raised"} => rn.cleaned

-----------------------------------------------------------------------------
(* posix_base: _compare_content_and_perms and _apply_perms_and_selinux *)

\* the value a caller asks for a key
RequestedVal(key) == IF key = "mode" THEN "0644" ELSE "a"

\* the other value 'ls' can show for a key
OtherVal(key) == IF key = "mode" THEN Symbolic("0600") ELSE "b"

\* what 'ls' shows for a key when the file has what was asked for: the mode
\* in symbols
Expected(key, value) == IF key = "mode" THEN Symbolic(value) ELSE value

\* perms.get(key) is truthy
Requested(perms) == {k \in AllKeys : perms[k] # "None"}

\* the perms dictionaries a caller passes, None and {} being the one with
\* nothing requested
PermsSpace ==
    { [k \in AllKeys |-> IF k \in S THEN RequestedVal(k) ELSE "None"] :
        S \in {T \in SUBSET AllKeys : Cardinality(T) <= MaxRequested} }

\* the owner, group, mode and context a file can have
ObservedSpace ==
    { [k \in AllKeys |-> IF k \in S THEN Expected(k, RequestedVal(k))
                         ELSE OtherVal(k)] : S \in SUBSET AllKeys }

\* what the temp file, written by the remote user with mode 0600, brings
\* along when it is moved onto the destination
TmpPermsSpace ==
    { [k \in AllKeys |-> IF k = "mode" THEN Symbolic("0600")
                         ELSE IF k \in SeKeys THEN se ELSE ug] :
        ug \in {"a", "b"}, se \in {"a", "b"} }

\* _check_selinux_tools, lines 771-774
Selinux(perms) == \E k \in SeKeys : perms[k] # "None"

\* _get_perms, lines 661-679: the dictionary has the SELinux keys only when
\* 'ls -Zd' was run; .get of a key it lacks gives None
GetPerms(dest_perms, selinux) ==
    [k \in AllKeys |-> IF k \in SeKeys /\ ~selinux THEN "None" ELSE dest_perms[k]]

\* lines 876-889 with 'perms.get(key) and' left out: every key is compared
CompareKeys_Unrequested(perms, old_perms, i, changed) ==
    \/ changed
    \/ \E j \in i..Len(PermKeys) : perms[PermKeys[j]] # old_perms[PermKeys[j]]

\* _compare_content_and_perms, lines 876-889: the loop over the keys
RECURSIVE CompareKeys(_, _, _, _)
CompareKeys(perms, old_perms, i, changed) ==
    IF i > Len(PermKeys) THEN changed
    ELSE CompareKeys(perms, old_perms, i + 1,
                     IF /\ perms[PermKeys[i]] # "None"
                        /\ perms[PermKeys[i]] # old_perms[PermKeys[i]]
                     THEN TRUE ELSE changed)

\* _compare_content_and_perms, lines 859-909
CompareContentAndPerms(exists, lines_differ, perms, old_perms) ==
    IF ~exists THEN TRUE
    ELSE LET changed == CompareKeys(perms, old_perms, 1, lines_differ)
         IN  IF /\ perms["mode"] # "None"
                /\ Symbolic(perms["mode"]) # old_perms["mode"]
             THEN TRUE ELSE changed

\* _apply_perms_and_selinux, lines 978-990: no key of the loop raises
KeysVerified(perms, final_perms) ==
    \A i \in 1..Len(PermKeys) :
        ~(perms[PermKeys[i]] # "None" /\ final_perms[PermKeys[i]] # perms[PermKeys[i]])

\* lines 992-1006 with the comparison of the mode left out
ModeVerified_Unchecked(perms, final_perms) == TRUE

\* _apply_perms_and_selinux, lines 992-1006: the mode does not raise
ModeVerified(perms, final_perms) ==
    perms["mode"] # "None" => final_perms["mode"] = Symbolic(perms["mode"])

PmInit ==
    /\ LpIdle
    /\ CmdIdle
    /\ WrIdle
    /\ RnIdle
    /\ pm \in { [NoPerms EXCEPT !.pc = "compare", !.perms = p, !.dest_perms = o,
                                !.mode0 = o["mode"], !.owner0 = o["owner"],
                                !.exists = e, !.lines_differ = l] :
                  p \in PermsSpace, o \in ObservedSpace \cup {NoPerms.dest_perms},
                  e \in BOOLEAN, l \in BOOLEAN }
    /\ pm.exists <=> pm.dest_perms \in ObservedSpace
    /\ pm.lines_differ => pm.exists

\* _write_file, lines 1115-1118 and 1162-1164
PmCompare ==
    /\ pm.pc = "compare"
    /\ LET old_perms == GetPerms(pm.dest_perms, Selinux(pm.perms))
           changed == CompareContentAndPerms(pm.exists, pm.lines_differ,
                                             pm.perms, old_perms)
       IN  pm' = IF changed
                 THEN [pm EXCEPT !.pc = "mv", !.changed = TRUE]
                 ELSE [pm EXCEPT !.pc = "returned", !.status = "ok",
                                 !.msg = "File not changed"]
    /\ UNCHANGED <<lpVars, cmdVars, wrVars, rnVars>>

\* _write_file, line 1148: the destination is now the temp file
PmMove ==
    /\ pm.pc = "mv"
    /\ \E t \in TmpPermsSpace :
         pm' = [pm EXCEPT !.pc = "apply", !.exists = TRUE, !.dest_perms = t]
    /\ UNCHANGED <<lpVars, cmdVars, wrVars, rnVars>>

\* _apply_perms_and_selinux, lines 938-970, and _handle_selinux_context,
\* lines 508-549: the commands run for what was requested, in order;
\* semanage and restorecon when both are on the host and setype is asked
\* for, chcon otherwise
ApplyCommands(perms, tools) ==
    (IF perms["owner"] # "None" THEN <<"chown">> ELSE <<>>)
    \o (IF perms["group"] # "None" THEN <<"chgrp">> ELSE <<>>)
    \o (IF perms["mode"] # "None" THEN <<"chmod">> ELSE <<>>)
    \o (IF ~Selinux(perms) THEN <<>>
        ELSE IF tools /\ perms["setype"] # "None" THEN <<"semanage", "restorecon">>
        ELSE <<"chcon">>)

\* a nonzero rc of semanage or restorecon let pass
Raises_NotPersistence(command) == command \notin {"semanage", "restorecon"}

\* lines 946-967 and lines 523-555: AnsibleActionFail follows the nonzero
\* rc of each of the commands
Raises(command) == command \in {"chown", "chgrp", "chmod", "semanage", "restorecon", "chcon"}

\* _apply_perms_and_selinux, lines 938-970: chown, chgrp, chmod and the
\* SELinux commands for what was requested.  A command that answers
\* nonzero raises.  The commands that answer zero leave each requested
\* field either showing as asked or not: an owner given by number shows by
\* name, restorecon sets the user, role and level of the policy.
PmApply ==
    /\ pm.pc = "apply"
    /\ \E tools \in BOOLEAN, shown \in SUBSET Requested(pm.perms) :
         LET commands == ApplyCommands(pm.perms, tools)
         IN  \E failing \in 0..Len(commands) :
               pm' = IF Requested(pm.perms) = {}
                     THEN [pm EXCEPT !.pc = "returned", !.status = "ok",
                                     !.msg = "File written successfully"]
                     ELSE IF failing > 0 /\ Raises(commands[failing])
                     THEN [pm EXCEPT !.pc = "failed", !.status = "fail",
                                     !.msg = "Failed to apply",
                                     !.ran = SubSeq(commands, 1, failing),
                                     !.nonzero = commands[failing]]
                     ELSE [pm EXCEPT !.pc = "verify",
                                     !.ran = commands,
                                     !.nonzero = IF failing > 0 THEN commands[failing]
                                                 ELSE "none",
                                     !.dest_perms =
                                        [k \in AllKeys |->
                                           IF k \in shown
                                           THEN Expected(k, pm.perms[k])
                                           ELSE IF k \in Requested(pm.perms)
                                           THEN OtherVal(k)
                                           ELSE pm.dest_perms[k]]]
    /\ UNCHANGED <<lpVars, cmdVars, wrVars, rnVars>>

\* _apply_perms_and_selinux, lines 972-1006, and _write_file, line 1161
PmVerify ==
    /\ pm.pc = "verify"
    /\ LET final_perms == GetPerms(pm.dest_perms, Selinux(pm.perms))
       IN  pm' = IF ~KeysVerified(pm.perms, final_perms)
                 THEN [pm EXCEPT !.pc = "failed", !.status = "fail",
                                 !.msg = "Post-apply verification failed"]
                 ELSE IF ~ModeVerified(pm.perms, final_perms)
                 THEN [pm EXCEPT !.pc = "failed", !.status = "fail",
                                 !.msg = "Invalid mode format: Post-apply verification failed"]
                 ELSE [pm EXCEPT !.pc = "returned", !.status = "ok",
                                 !.msg = "File written successfully"]
    /\ UNCHANGED <<lpVars, cmdVars, wrVars, rnVars>>

PmNext == PmCompare \/ PmMove \/ PmApply \/ PmVerify

SpecPerms == PmInit /\ [][PmNext]_vars

-----------------------------------------------------------------------------
(* permissions: properties *)

\* the requested fields that do not show as asked on the destination
Mismatched ==
    {k \in Requested(pm.perms) :
        GetPerms(pm.dest_perms, Selinux(pm.perms))[k] # Expected(k, pm.perms[k])}

\* C14: after a changed write with requested permissions the fields are
\* read back and compared: when the write returns successfully every
\* requested field shows as asked, and when one does not, the commands
\* having answered zero, the write fails with a post-apply verification
\* error.
C14_PostApplyVerified ==
    (pm.changed /\ pm.pc \in {"returned", "failed"}) =>
        /\ pm.status = "ok" => Mismatched = {}
        /\ (Mismatched # {} /\ pm.msg # "Failed to apply") =>
             /\ pm.status = "fail"
             /\ pm.msg \in {"Post-apply verification failed",
                            "Invalid mode format: Post-apply verification failed"}

\* C14 witness: a changed write that asked for a mode and an SELinux type
\* has returned successfully
C14_Witness ==
    /\ pm.changed /\ pm.pc = "returned" /\ pm.status = "ok"
    /\ Requested(pm.perms) = {"mode", "setype"}

\* C19: the comparison reports changed exactly when the destination is not
\* there, or its lines differ, or a requested field differs from the
\* observed one, the mode compared in symbols; a field not requested has no
\* part in the result.
C19_ChangedIffDiffers ==
    pm.pc \in {"mv", "returned"} /\ pm.msg # "File written successfully" =>
        ( pm.changed <=>
            \/ ~pm.exists
            \/ pm.lines_differ
            \/ Mismatched # {} )

\* C19 witness: nothing is to change although fields that were not
\* requested show other values than a requested one that agrees
C19_Witness ==
    /\ pm.pc = "returned" /\ ~pm.changed /\ pm.exists
    /\ Requested(pm.perms) = {"owner", "mode"}
    /\ pm.dest_perms["group"] = OtherVal("group")
    /\ pm.dest_perms["setype"] = OtherVal("setype")

\* C29 as amended: a nonzero rc of semanage, or of the restorecon after it,
\* fails the write with AnsibleActionFail: restorecon is not run after a
\* failed semanage and the permissions are not verified.
C29_SemanageFailureFatal ==
    pm.nonzero \in {"semanage", "restorecon"} =>
        /\ pm.pc = "failed" /\ pm.status = "fail"
        /\ pm.ran[Len(pm.ran)] = pm.nonzero
        /\ pm.nonzero = "semanage" => \A k \in 1..Len(pm.ran) : pm.ran[k] # "restorecon"

\* semanage answered nonzero after a chmod that went through
C29_Witness ==
    /\ pm.pc = "failed" /\ pm.nonzero = "semanage"
    /\ pm.ran = <<"chmod", "semanage">>

\* C29: a nonzero rc of semanage, or of the restorecon after it, does not
\* fail the write: it goes on to the verification of the permissions.
C29_SemanageFailureNonFatal ==
    pm.nonzero \in {"semanage", "restorecon"} => pm.pc # "failed"

\* C35: a write that changed an existing destination and was asked for no
\* owner, group or mode leaves the destination with the owner and the mode
\* it had before; the group goes the way of the owner.
C35_UnrequestedPermsKept ==
    ( /\ pm.pc = "returned" /\ pm.changed
      /\ pm.mode0 # "None"
      /\ \A k \in {"owner", "group", "mode"} : pm.perms[k] = "None" ) =>
        /\ pm.dest_perms["mode"] = pm.mode0
        /\ pm.dest_perms["owner"] = pm.owner0

-----------------------------------------------------------------------------
(* lineinfile_dedupe: _remove_matching_lines, state=absent *)

\* _def_args and _audit_args, lines 360-371: regexp and search_string are
\* mutually exclusive and one of line, search_string, regexp is required
AbsentArgSpace ==
    { a \in [ line : {None, <<"x">>},
              regexp : {None} \cup PatternVals,
              search_string : {None, <<"x">>},
              insertafter : {None},
              insertbefore : {None},
              firstmatch : {FALSE},
              backrefs : {FALSE},
              dedupe : {FALSE} ] :
        /\ ~(a.regexp # None /\ a.search_string # None)
        /\ (a.regexp # None \/ a.search_string # None \/ a.line # None) }

\* lines 262-269 without the comparison with self.line
Removes_PatternOnly(a, cur_line) ==
    \/ Truthy(a.regexp) /\ Contains(cur_line, a.regexp)
    \/ Truthy(a.search_string) /\ Contains(cur_line, a.search_string)

\* _remove_matching_lines, lines 262-269: the condition of the loop
Removes(a, cur_line) ==
    \/ Truthy(a.regexp) /\ Contains(cur_line, a.regexp)
    \/ Truthy(a.search_string) /\ Contains(cur_line, a.search_string)
    \/ Truthy(a.line) /\ RStripNewlines(cur_line) = a.line

\* _remove_matching_lines, lines 258-272: the loop over self.lines
RECURSIVE RemoveMatchingLines(_, _, _, _)
RemoveMatchingLines(a, lines, new_lines, removed_count) ==
    IF lines = <<>> THEN [new_lines |-> new_lines, removed_count |-> removed_count]
    ELSE IF Removes(a, Head(lines))
         THEN RemoveMatchingLines(a, Tail(lines), new_lines, removed_count + 1)
         ELSE RemoveMatchingLines(a, Tail(lines), Append(new_lines, Head(lines)),
                                  removed_count)

AbInit ==
    /\ lp_args \in AbsentArgSpace
    /\ lp_lines \in SeqsUpTo(LineVals, MaxLines)
    /\ lp_pc = "remove"
    /\ lp_scan = NoScan
    /\ lp_res = NoResult
    /\ CmdIdle
    /\ WrIdle
    /\ RnIdle
    /\ PmIdle

\* _remove_matching_lines, lines 254-284
AbRemove ==
    /\ lp_pc = "remove"
    /\ LET r == RemoveMatchingLines(lp_args, lp_lines, <<>>, 0)
       IN  lp_res' = [lp_res EXCEPT
                        !.new_lines = r.new_lines,
                        !.found = r.removed_count,
                        !.msg = IF r.removed_count # 0
                                THEN "line(s) removed" ELSE "no changes made",
                        !.status = "ok"]
    /\ lp_pc' = "done"
    /\ UNCHANGED <<lp_args, lp_lines, lp_scan, cmdVars, wrVars, rnVars, pmVars>>

SpecAbsent == AbInit /\ [][AbRemove]_vars

\* the positions of the lines that match regexp, contain search_string or
\* equal line
AbsentPositions ==
    { i \in 0..(Len(lp_lines) - 1) :
        \/ lp_args.regexp # None /\ Contains(At(lp_lines, i), lp_args.regexp)
        \/ lp_args.search_string # None
             /\ Contains(At(lp_lines, i), lp_args.search_string)
        \/ lp_args.line # None /\ At(lp_lines, i) = lp_args.line }

-----------------------------------------------------------------------------
(* posix_base: _is_interpreter_missing on every kind of result *)

\* the messages a result can carry: up to MaxMsg letters
Letters == {"T", "t", "i", "x"}

Messages == UNION { [1..n -> Letters] : n \in 0..MaxMsg }

\* what sits under a key of a result
RcValues == {PyInt(0), PyInt(1), PyInt(127), PyStr(<<"1", "2", "7">>), PyNone}

MsgValues == {PyStr(m) : m \in Messages} \cup {PyNone, PyList(<<canary_str>>)}

\* the results the classifier is handed: a dict with or without rc and
\* msg, whatever their values, or something that is not a dict
ClassifyResults ==
    { [type |-> "dict", keys |-> k, rc |-> rc, msg |-> msg] :
        k \in SUBSET {"rc", "msg"}, rc \in RcValues, msg \in MsgValues }
    \cup {PyStr(canary_str), PyNone, PyList(<<>>)}

\* op holds the plugin instance's force_raw, the result handed in and
\* what the call returned
ClInit ==
    /\ \E r \in ClassifyResults, f \in BOOLEAN :
         op = [pc |-> "call", force_raw |-> f, result |-> r, returned |-> "none"]
    /\ sl = NoSlurp /\ cm = NoCommand
    /\ LpIdle /\ WrIdle /\ RnIdle /\ PmIdle

\* _is_interpreter_missing, lines 94-114: a true answer also sets
\* self.force_raw, line 110
ClIsInterpreterMissing ==
    /\ op.pc = "call"
    /\ LET missing == IsInterpreterMissing(op.result)
       IN  op' = [op EXCEPT !.pc = "returned", !.returned = missing,
                            !.force_raw = IF missing THEN TRUE ELSE @]
    /\ UNCHANGED <<sl, cm, lpVars, wrVars, rnVars, pmVars>>

SpecClassify == ClInit /\ [][ClIsInterpreterMissing]_vars

\* one letter is the other, whatever the case
SameLetter(a, b) == a = b \/ {a, b} = {"T", "t"}

\* the canary phrase stands somewhere in the message, case set aside
CanaryAt(m) ==
    \E k \in 1..Len(m) :
        /\ k + Len(canary_str) - 1 <= Len(m)
        /\ \A j \in 1..Len(canary_str) : SameLetter(m[k + j - 1], canary_str[j])

\* C26: _is_interpreter_missing answers true exactly for a dict whose rc is
\* 127 and whose msg is a string holding the canary phrase in whatever
\* case; rc 0 with the canary, rc 127 with another, a missing or a
\* non-string msg, and a result that is no dict all get false.
C26_ClassifierExact ==
    op.pc = "returned" =>
        /\ op.returned \in BOOLEAN
        /\ op.returned <=>
             /\ op.result.type = "dict"
             /\ "rc" \in op.result.keys
             /\ op.result.rc.type = "int" /\ op.result.rc.val = 127
             /\ "msg" \in op.result.keys
             /\ op.result.msg.type = "str"
             /\ CanaryAt(op.result.msg.val)

\* the canary in lower case under rc 127 was classified as interpreter-missing
C26_Witness ==
    /\ op.pc = "returned" /\ op.returned = TRUE
    /\ op.result.type = "dict" /\ op.result.keys = {"rc", "msg"}
    /\ op.result.msg = PyStr(<<"x", "t", "i">>)

-----------------------------------------------------------------------------
(* the run() of each plugin: the keys of the mapping it returns *)

Plugins ==
    {"command", "slurp64", "lineinfile_dedupe", "template", "mounts", "facts",
     "compliance"}

\* the keys of what a builtin module returns, 'invocation' popped: ansible
\* decides them, with a msg or without
ModuleResultKeys == { {"changed", "rc"}, {"changed", "rc", "msg"} }

\* _raw_cmd, command.py lines 107-117: the keys of the dict it returns
RawCmdKeys ==
    {"changed", "stdout", "stderr", "rc", "cmd", "start", "end", "delta", "msg"}

\* _cat, posix_base.py lines 246-258
CatKeys(failed) ==
    {"changed", "raw", "source"} \cup (IF failed THEN {"failed", "msg"} ELSE {"content"})

\* _write_file, posix_base.py lines 1081 and 1136-1170
WriteFileKeys == {"changed", "msg", "rc"}

\* lineinfile_dedupe.run, lines 538-546, and template.run, lines 203-211:
\* the keys the result starts with
InitialKeys == {"invocation", "changed", "raw", "msg"}

\* what the connection raises when it raises: the host cannot be reached,
\* or anything else
ExceptionTypes == {"AnsibleConnectionFailure", "AnsibleError"}

\* one task runs one plugin: its _force_raw argument, what the builtin
\* module answers when asked, the keys of that answer, whether the remote
\* step of the plugin answers a failure, whether the plugin's first _cmd
\* raises and whether the 'df' of mounts does, and what is raised then.
\* ActionBase.run gives an empty dict.
EpInit ==
    /\ \E p \in Plugins, f \in BOOLEAN, r \in NativeResults,
          k \in ModuleResultKeys, x \in BOOLEAN, pr \in BOOLEAN,
          dr \in BOOLEAN, e \in ExceptionTypes :
         op = [pc |-> "entered", plugin |-> p, force_raw |-> f, native |-> r,
               module_keys |-> k, fails |-> x, probe_raises |-> pr,
               df_raises |-> dr, exc |-> e, result |-> {}, error |-> "none"]
    /\ sl = NoSlurp /\ cm = NoCommand
    /\ LpIdle /\ WrIdle /\ RnIdle /\ PmIdle

\* the plugin returns result
Returned(o, keys) == [o EXCEPT !.pc = "returned", !.result = keys]

\* an exception leaves run()
Raised(o, type) == [o EXCEPT !.pc = "raised", !.error = type]

\* command.run, lines 317-353; _raw_cmd raises when the cd fails, and lets
\* through what _low_level_execute_command raises
EpCommand ==
    /\ op.pc = "entered" /\ op.plugin = "command"
    /\ op' = IF ~op.force_raw /\ op.native.raised THEN Raised(op, op.exc)
             ELSE IF ~op.force_raw /\ ~IsInterpreterMissing(op.native)
             THEN Returned(op, {"invocation"} \cup op.module_keys \cup {"raw"})
             ELSE IF op.probe_raises THEN Raised(op, op.exc)
             ELSE IF op.fails THEN Raised(op, "AnsibleActionFail")
             ELSE Returned(op, {"invocation"} \cup RawCmdKeys \cup {"raw"})
    /\ UNCHANGED <<sl, cm, lpVars, wrVars, rnVars, pmVars>>

\* slurp64.run, lines 91-167: an exception of the builtin module is turned
\* into a dict of failed, rc and module_stderr, and result["raw"] is not
\* set; fails is the 'cat' answering nonzero, or the decoding raising;
\* what the _cmd of _cat raises is let through
EpSlurp64 ==
    /\ op.pc = "entered" /\ op.plugin = "slurp64"
    /\ LET base == {"invocation", "msg"}
           ansible_slurp_mod ==
               IF op.native.raised
               THEN [op.native EXCEPT !.rc = PyInt(127), !.keys = {"rc"}]
               ELSE op.native
           slurp_keys == IF op.native.raised THEN {"failed", "rc", "module_stderr"}
                         ELSE op.module_keys \cup
                              (IF op.native.kind = "ok" THEN {"content"} ELSE {})
           tried == IF op.native.raised THEN base ELSE base \cup {"raw"}
           lines(keys) == IF "content" \in keys THEN keys \cup {"content_lines"}
                          ELSE keys
       IN  op' = IF op.force_raw \/ IsInterpreterMissing(ansible_slurp_mod)
                 THEN IF op.probe_raises THEN Raised(op, op.exc)
                      ELSE Returned(op, lines(base \cup CatKeys(op.fails) \cup {"raw"})
                                          \cup {"changed"})
                 ELSE IF "content" \in slurp_keys /\ op.fails
                 THEN Raised(op, "AnsibleActionFail")
                 ELSE Returned(op, lines(tried \cup slurp_keys) \cup {"changed"})
    /\ UNCHANGED <<sl, cm, lpVars, wrVars, rnVars, pmVars>>

\* lineinfile_dedupe.run, lines 536-586: the audit or the write fails, or
\* the result of _write_file is merged in
EpLineinfileDedupe ==
    /\ op.pc = "entered" /\ op.plugin = "lineinfile_dedupe"
    /\ op' = IF op.fails THEN Returned(op, InitialKeys \cup {"failed", "msg"})
             ELSE Returned(op, InitialKeys \cup WriteFileKeys)
    /\ UNCHANGED <<sl, cm, lpVars, wrVars, rnVars, pmVars>>

\* template.run, lines 203-211 and 371-450: ansible.legacy.copy, or the
\* raw write
EpTemplate ==
    /\ op.pc = "entered" /\ op.plugin = "template"
    /\ op' = IF ~op.force_raw /\ op.native.raised THEN Raised(op, op.exc)
             ELSE IF ~op.force_raw /\ ~IsInterpreterMissing(op.native)
             THEN Returned(op, InitialKeys \cup op.module_keys)
             ELSE IF op.fails THEN Returned(op, InitialKeys \cup {"failed", "msg"})
             ELSE Returned(op, InitialKeys \cup WriteFileKeys \cup {"raw"})
    /\ UNCHANGED <<sl, cm, lpVars, wrVars, rnVars, pmVars>>

\* mounts.run, lines 66 and 104-114.  _get_mount_output, lines 148-151,
\* turns whatever the 'mount' command raises into AnsibleActionFail;
\* _get_df_output, lines 161-169, turns whatever 'df -P' raises into None;
\* the mount filter raises on output it cannot parse
EpMounts ==
    /\ op.pc = "entered" /\ op.plugin = "mounts"
    /\ op' = IF op.probe_raises \/ op.fails THEN Raised(op, "AnsibleActionFail")
             ELSE Returned(op, {"changed", "mounts"})
    /\ UNCHANGED <<sl, cm, lpVars, wrVars, rnVars, pmVars>>

\* facts.run, lines 141-158 and 204-208: a connection failure of the uname
\* probe is raised again, any other exception makes the skipped result
EpFacts ==
    /\ op.pc = "entered" /\ op.plugin = "facts"
    /\ op' = IF op.probe_raises /\ op.exc = "AnsibleConnectionFailure"
             THEN Raised(op, op.exc)
             ELSE IF op.probe_raises \/ op.fails
             THEN Returned(op, {"skipped", "skip_reason", "ansible_facts"})
             ELSE Returned(op, {"ansible_facts"})
    /\ UNCHANGED <<sl, cm, lpVars, wrVars, rnVars, pmVars>>

\* compliance.run, lines 126-131, 150-156 and 325-349: the getconf _cmd
\* stands outside every try
EpCompliance ==
    /\ op.pc = "entered" /\ op.plugin = "compliance"
    /\ op' = IF op.probe_raises THEN Raised(op, op.exc)
             ELSE IF op.fails THEN Raised(op, "AnsibleActionFail")
             ELSE Returned(op, {"is_posix", "compliance", "msg", "changed"})
    /\ UNCHANGED <<sl, cm, lpVars, wrVars, rnVars, pmVars>>

EpNext ==
    \/ EpCommand \/ EpSlurp64 \/ EpLineinfileDedupe \/ EpTemplate
    \/ EpMounts \/ EpFacts \/ EpCompliance

SpecEntry == EpInit /\ [][EpNext]_vars

\* C27: whatever a plugin's run() returns holds the keys changed, msg and
\* raw; so does a result handed back to _run_action, which command and
\* slurp64 produce.
C27_ResultHasChangedMsgRaw ==
    op.pc = "returned" => {"changed", "msg", "raw"} \subseteq op.result

\* the connection failed under a probing step: the uname of facts, the
\* mount or the df of mounts, the getconf of compliance, the builtin
\* module slurp64 tries first
ConnectionFailed ==
    /\ op.exc = "AnsibleConnectionFailure"
    /\ \/ op.plugin \in {"facts", "compliance"} /\ op.probe_raises
       \/ op.plugin = "mounts" /\ (op.probe_raises \/ op.df_raises)
       \/ op.plugin = "slurp64" /\ ~op.force_raw /\ op.native.raised

\* C28: a connection failure under a probing step of facts, mounts,
\* compliance or slurp64 leaves run() as a connection failure; no result is
\* returned and no other exception takes its place.
C28_ConnectionFailurePropagates ==
    (op.pc \in {"returned", "raised"} /\ ConnectionFailed) =>
        op.pc = "raised" /\ op.error = "AnsibleConnectionFailure"

-----------------------------------------------------------------------------
(* mounts: _get_mounts, the mount entries and the capacity df adds *)

MountPoints == {"/", "/home", "/proc"}

\* what the mount filter makes of the 'mount' output: for each mount point
\* listed, its type
MountOutputs == [MountPoints -> {"absent", "device", "virtual"}]

\* what the df filter makes of the 'df -P' output: for each mount point,
\* no line, a line without sizes, or a line with sizes
DfOutputs == [MountPoints -> {"absent", "no capacity", "capacity"}]

\* how the 'df -P' step ends: _cmd raises, the command answers nonzero, it
\* answers 0 with output the df filter raises on, or with output it parses
DfOutcomes == {"raises", "nonzero", "unparseable", "ok"}

\* an entry of the mounts dict
MountInfo(type) == [type |-> type, capacity |-> "none"]

MtInit ==
    /\ \E m \in MountOutputs, d \in DfOutputs, o \in DfOutcomes,
          raises \in BOOLEAN, virtual \in BOOLEAN :
         op = [pc |-> "mount", mount_raises |-> raises, mount_output |-> m,
               df_outcome |-> o, df_output |-> d, virtual |-> virtual,
               df_result |-> "unset", mounts |-> [q \in {} |-> MountInfo("device")],
               error |-> "none"]
    /\ sl = NoSlurp /\ cm = NoCommand
    /\ LpIdle /\ WrIdle /\ RnIdle /\ PmIdle

\* _get_mount_output, lines 148-151
MtGetMountOutput ==
    /\ op.pc = "mount"
    /\ op' = IF op.mount_raises
             THEN [op EXCEPT !.pc = "raised", !.error = "AnsibleActionFail"]
             ELSE [op EXCEPT !.pc = "df"]
    /\ UNCHANGED <<sl, cm, lpVars, wrVars, rnVars, pmVars>>

\* _get_df_output, lines 161-169: None when _cmd raises
MtGetDfOutput ==
    /\ op.pc = "df"
    /\ op' = [op EXCEPT !.pc = "parse",
                        !.df_result = CASE op.df_outcome = "raises" -> "None"
                                        [] op.df_outcome = "nonzero" -> "rc 1"
                                        [] OTHER -> "rc 0"]
    /\ UNCHANGED <<sl, cm, lpVars, wrVars, rnVars, pmVars>>

\* _parse_mount_data, lines 179-181, and _filter_mounts, lines 189-227,
\* with every argument but virtual at its default
MtParseAndFilter ==
    /\ op.pc = "parse"
    /\ LET kept == {q \in MountPoints :
                      /\ op.mount_output[q] # "absent"
                      /\ ~(~op.virtual /\ op.mount_output[q] = "virtual")}
       IN  op' = [op EXCEPT !.pc = "enhance",
                            !.mounts = [q \in kept |-> MountInfo(op.mount_output[q])]]
    /\ UNCHANGED <<sl, cm, lpVars, wrVars, rnVars, pmVars>>

\* _enhance_with_df_data, lines 243-248: the capacity of a df entry, named
\* here by the mount point df gave it for, goes to the same mount point
Enhanced(mounts, df_mounts) ==
    [q \in DOMAIN mounts |->
        IF df_mounts[q] = "capacity" THEN [mounts[q] EXCEPT !.capacity = q]
        ELSE mounts[q]]

\* _get_mounts, lines 135-137, and _enhance_with_df_data, lines 238-241:
\* the df filter is called outside every try
MtEnhance ==
    /\ op.pc = "enhance"
    /\ op' = IF op.df_result # "rc 0" THEN [op EXCEPT !.pc = "return"]
             ELSE IF op.df_outcome = "unparseable"
             THEN [op EXCEPT !.pc = "raised", !.error = "AnsibleFilterError"]
             ELSE [op EXCEPT !.pc = "return",
                             !.mounts = Enhanced(@, op.df_output)]
    /\ UNCHANGED <<sl, cm, lpVars, wrVars, rnVars, pmVars>>

\* mounts.run, lines 107-114
MtReturn ==
    /\ op.pc = "return"
    /\ op' = [op EXCEPT !.pc = "returned"]
    /\ UNCHANGED <<sl, cm, lpVars, wrVars, rnVars, pmVars>>

MtNext == MtGetMountOutput \/ MtGetDfOutput \/ MtParseAndFilter \/ MtEnhance \/ MtReturn

SpecMounts == MtInit /\ [][MtNext]_vars

\* the mount points the plugin is to return
ExpectedMounts ==
    {q \in MountPoints :
        op.mount_output[q] = "device" \/ (op.mount_output[q] = "virtual" /\ op.virtual)}

\* C30: once 'mount' has answered, the plugin returns the mount entries
\* whatever happens to df: when df raises, answers nonzero or answers
\* output that cannot be parsed, the entries carry no capacity; when df
\* succeeds an entry carries the capacity df gave for its own mount point,
\* and no other.
C30_DfFailureNonFatal ==
    (op.pc \in {"returned", "raised"} /\ ~op.mount_raises) =>
        /\ op.pc = "returned"
        /\ DOMAIN op.mounts = ExpectedMounts
        /\ \A q \in DOMAIN op.mounts :
             op.mounts[q].capacity =
                 IF op.df_outcome = "ok" /\ op.df_output[q] = "capacity"
                 THEN q ELSE "none"

-----------------------------------------------------------------------------
(* mounts: the mount filter's facts and _filter_mounts *)

\* filter/mount.py, lines 164-278: one or two names of each set
DEVICE_FS_TYPES == {"ext4"}

PSEUDO_FS_TYPES == {"proc"}

VIRTUAL_FS_TYPES == {"tmpfs"}

OVERLAY_FS_TYPES == {"overlay"}

NETWORK_FS_TYPES == {"nfs"}

\* what one line of the 'mount' output says besides the mount point: the
\* source, the filesystem and the options; "zzfs" is in none of the sets
MountLines ==
    { [filesystem |-> "/dev/sda1", type |-> "ext4", options |-> o] :
        o \in {{"rw"}, {"rw", "bind"}, {"rw", "rbind"}} }
    \cup { [filesystem |-> "tmpfs", type |-> "tmpfs", options |-> {"rw"}],
           [filesystem |-> "proc", type |-> "proc", options |-> {"rw"}],
           [filesystem |-> "overlay", type |-> "overlay", options |-> {"rw"}],
           [filesystem |-> "server:/x", type |-> "nfs", options |-> {"rw"}],
           [filesystem |-> "/dev/sdb1", type |-> "zzfs", options |-> {"rw"}] }

MountPointNames == {"/", "/boot", "/var"}

\* the parsed 'mount' output: up to MaxMounts entries, each with a mount
\* point of its own, in the order the command printed them
ParsedMounts ==
    { e \in UNION { [1..n -> [mount_point : MountPointNames, line : MountLines]] :
                      n \in 0..MaxMounts } :
        \A i, j \in DOMAIN e : e[i].mount_point = e[j].mount_point => i = j }

\* str.startswith("/dev/") and ":" in str, of the sources of MountLines
DeviceLike(source) == source \in {"/dev/sda1", "/dev/sdb1"}

NetworkLike(source) == source = "server:/x"

\* filter/mount.py, lines 346-369: mount_info["type"]; "unset" when no
\* branch sets the key
MountType(line) ==
    IF line.type \in VIRTUAL_FS_TYPES \cup PSEUDO_FS_TYPES THEN "virtual"
    ELSE IF line.type \in OVERLAY_FS_TYPES THEN "overlay"
    ELSE IF line.type \in NETWORK_FS_TYPES THEN "network"
    ELSE IF line.type \in DEVICE_FS_TYPES THEN "device"
    ELSE IF DeviceLike(line.filesystem) THEN "device"
    ELSE IF NetworkLike(line.filesystem) THEN "network"
    ELSE "unset"

\* filter/mount.py, lines 290-390: the mount_info of one entry
MountFacts(entry) ==
    [mount_point |-> entry.mount_point,
     type |-> MountType(entry.line),
     pseudo |-> entry.line.type \in PSEUDO_FS_TYPES,
     options |-> entry.line.options]

\* the arguments of the task: pseudo is None when not given
MfInit ==
    /\ \E e \in ParsedMounts, virtual \in BOOLEAN, network \in BOOLEAN,
          pseudo \in {"None", "True", "False"} :
         op = [pc |-> "format", parsed |-> e, virtual |-> virtual,
               network |-> network, pseudo |-> pseudo, mounts |-> <<>>]
    /\ sl = NoSlurp /\ cm = NoCommand
    /\ LpIdle /\ WrIdle /\ RnIdle /\ PmIdle

\* _parse_mount_data, mounts.py lines 179-181, and _format_as_facts,
\* filter/mount.py lines 282-392: a dict filled entry after entry keeps
\* the order of the entries
MfFormatAsFacts ==
    /\ op.pc = "format"
    /\ op' = [op EXCEPT !.pc = "filter",
                        !.mounts = [k \in DOMAIN op.parsed |-> MountFacts(op.parsed[k])]]
    /\ UNCHANGED <<sl, cm, lpVars, wrVars, rnVars, pmVars>>

\* _filter_mounts, lines 189-222: the mount is kept; device, overlay and
\* fuse are at their default, true
Kept(mount_info, include_virtual, include_network, include_pseudo) ==
    /\ ~(~include_virtual /\ mount_info.type = "virtual")
    /\ ~(~include_network /\ mount_info.type = "network")
    /\ ~(~include_pseudo /\ mount_info.type = "virtual" /\ mount_info.pseudo)

\* the elements of a sequence that pass a test, in their order
RECURSIVE SelectKept(_, _, _, _)
SelectKept(mounts, v, n, p) ==
    IF mounts = <<>> THEN <<>>
    ELSE IF Kept(Head(mounts), v, n, p)
    THEN <<Head(mounts)>> \o SelectKept(Tail(mounts), v, n, p)
    ELSE SelectKept(Tail(mounts), v, n, p)

\* _filter_mounts, lines 189-227, then _get_mounts, line 139, and run,
\* lines 107-114: the filtered dict is returned as it is
MfFilterMounts ==
    /\ op.pc = "filter"
    /\ LET include_pseudo == IF op.pseudo = "None" THEN op.virtual
                             ELSE op.pseudo = "True"
       IN  op' = [op EXCEPT !.pc = "returned",
                            !.mounts = SelectKept(@, op.virtual, op.network,
                                                  include_pseudo)]
    /\ UNCHANGED <<sl, cm, lpVars, wrVars, rnVars, pmVars>>

SpecMountFacts == MfInit /\ [][MfFormatAsFacts \/ MfFilterMounts]_vars

\* C32: a mount with bind or rbind among its options and a device
\* filesystem has type overlay in the facts.
C32_BindIsOverlay ==
    op.pc = "filter" =>
        \A k \in DOMAIN op.mounts :
            ( /\ op.parsed[k].line.options \cap {"bind", "rbind"} # {}
              /\ op.parsed[k].line.type \in DEVICE_FS_TYPES ) =>
                op.mounts[k].type = "overlay"

\* the place of a mount point in lexical order
LexRank(mount_point) ==
    CASE mount_point = "/" -> 1 [] mount_point = "/boot" -> 2 [] OTHER -> 3

\* C33: the mounts returned list their mount points in lexical order.
C33_MountsSorted ==
    op.pc = "returned" =>
        \A i, j \in DOMAIN op.mounts :
            i < j => LexRank(op.mounts[i].mount_point) < LexRank(op.mounts[j].mount_point)

\* the mount points returned
ReturnedPoints == {op.mounts[k].mount_point : k \in DOMAIN op.mounts}

\* C34: a pseudo filesystem is returned exactly when the pseudo option is
\* true, the virtual option standing in for a pseudo option not given; with
\* the default arguments nothing virtual or pseudo is returned and every
\* network filesystem is.
C34_PseudoFollowsOption ==
    op.pc = "returned" =>
        /\ \A k \in DOMAIN op.parsed :
             op.parsed[k].line.type \in PSEUDO_FS_TYPES =>
                 ( op.parsed[k].mount_point \in ReturnedPoints
                   <=> IF op.pseudo = "None" THEN op.virtual ELSE op.pseudo = "True" )
        /\ (~op.virtual /\ op.pseudo = "None" /\ op.network) =>
             \A k \in DOMAIN op.parsed :
                 /\ op.parsed[k].line.type \in VIRTUAL_FS_TYPES \cup PSEUDO_FS_TYPES
                      => op.parsed[k].mount_point \notin ReturnedPoints
                 /\ op.parsed[k].line.type \in NETWORK_FS_TYPES
                      => op.parsed[k].mount_point \in ReturnedPoints

=============================================================================
